---- MODULE Spec2Model ----
(***************************************************************************)
(* Orchestration core of minecraft-mcp-mineflayer (src/unnamed/part_000):  *)
(* the per-bot task guard (withTask / stopAllTasks), the one-shot event    *)
(* slots read by getStatus inside sendToolCall, and the reference-counted  *)
(* auto-eat suspension flag used around equip operations.                  *)
(*                                                                         *)
(* The runtime is single-threaded and cooperative: code between two awaits *)
(* runs atomically, so each action below is one such run-to-await segment. *)
(***************************************************************************)
EXTENDS Integers, Sequences, FiniteSets, TLC

(***************************************************************************)
(* Bounds of the model.                                                    *)
(***************************************************************************)
\* number of invocations that can be in flight at once
MaxCalls == 2
\* work items (blocks, craft attempts, devices) one action body may start
MaxItems == 2
\* events (damage, death, broken item, hunger warning) raised in one run
MaxEvents == 2
\* equip operations that can be in flight at once
MaxEquips == 2
\* length of the push / pop call sequences tried
MaxOps == 6
\* resolution of the clock, in ms: waits last a whole number of steps
StepMs == 2500
\* longest time one waitForTicks(5) can take, in clock steps
MaxWaitSteps == 2
\* largest distance to a navigation target, in quarter blocks
MaxDist == 11
\* largest count a craftItems request asks for
MaxCount == 5
\* largest number of units of the ingredient one craft needs
MaxPer == 2
\* largest number of units of the ingredient in the inventory
MaxHave == 4
\* largest count a smeltItem request asks for, and largest input stock
MaxSmelt == 2
\* how long the auto-shield is followed, in steps of ShieldStepMs
MaxShieldSteps == 8
\* largest number of melee weapons (swords, axes) in the inventory
MaxMelee == 2
\* largest number of bot objects joinGame creates in one run
MaxSessions == 2
\* largest number of calls of the timeout helpers in one run
MaxRaces == 3
\* how long the auto-eat poller is followed, in steps of EatStepMs
MaxEatSteps == 4
\* the times an action result is built at: multiples of FlagStepMs ms
FlagStepMs == 20000
MaxFlagSteps == 7
\* the largest progress target of an action result
MaxTarget == 2
\* ticks of one interval timer that are followed
MaxTicks == 5
\* retaliations followed in one behaviour
MaxRetaliations == 2
\* the clock of the combat model: its step in ms, and how many it makes
CombatStepMs == 5000
MaxCombatSteps == 5
\* guarded actions followed one after the other, and the attempts of each
MaxGuarded == 4
MaxAttempts == 2
\* the most by which one craft raises the count of the item
MaxYield == 2
\* blocks a mineResource call can ask for
MaxBlocks == 3
\* the time one block of mineResource is followed in, ms
MineStepMs == 25000
\* words, joined by "_", an item name is made of at most
MaxWords == 2
\* fuel items the inventory can hold when a device is opened
MaxFuel == 3
\* the time one pass of the output loop is followed in, ms
RefuelStepMs == 8000
\* raiseShieldFor calls that can be in flight at once
MaxRaises == 3

Calls == 1..MaxCalls
Equips == 1..MaxEquips
Bots == {"A", "B"}

\* the null abort handle of getTask
NoAbort == 0

(***************************************************************************)
(* Tools of sendToolCall's switch that matter to the guard.                *)
(***************************************************************************)
\* the actions whose body is wrapped in withTask
GuardedTools ==
  {"mineResource", "harvestMatureCrops", "craftItems", "smeltItem",
   "buildSomething", "depositItemsToNearbyChest",
   "withdrawItemsFromNearbyChest", "digBlock", "placeBlockAt",
   "plantSeedsWithinRadius"}

\* long-running actions whose body loops over awaits without withTask
UnguardedLongTools ==
  {"hunt", "attackSomeone", "gatherSeeds", "goToKnownLocation",
   "prepareLandForFarming", "cookWithSmoker", "smeltWithBlastFurnace"}

LongTools == GuardedTools \cup UnguardedLongTools

\* the five one-shot event slots of a bot (getStatus lines 233-237)
SlotKinds == {"lastDamage", "lastBroken", "lastDefense", "lastDeath", "lastHungerWarning"}

\* usernames a request can carry: none, a bot of the registry, a name of no bot
Usernames == {"", "A", "Z"}

VARIABLES
  bots,     \* the registry `bots`: usernames in insertion order
  task,     \* task[b]: bot b's __task record {running, abort}
  inv,      \* inv[c]: invocation c of a long-running action
  slots,    \* slots[b][k]: bot b's one-shot slot k (0 is null, else an event id)
  evCount,  \* events raised so far; event ids are 1..evCount
  call,     \* call[c]: sendToolCall request c while its action is in flight
  out,      \* the response returned by the step just taken (NoOut: none)
  lastRead, \* what getStatus returned in the step just taken (NoStatus: no call)
  suspendCount,   \* __suspendAutoEatCount
  suspendAutoEat, \* __suspendAutoEat
  eq,       \* eq[p]: equip operation p (bot.equip or the tool plugin's equip)
  autoEat,  \* the auto-eat poller: isEating, and what it reads (food, inventory)
  ops,      \* a sequence of push / pop calls to apply
  opi,      \* how many of them have been applied
  now,      \* the clock read by Date.now(), in ms
  dist,     \* distance from the bot to the navigation target, in quarter blocks
  nav,      \* the navigation loop in flight (pathfindToPredicate, goToKnownLocation)
  craft,    \* the craftItems call in flight and the inventory it works on
  smelt,    \* the smeltItem call in flight: device chain and attempts made
  shield,   \* the auto-shield state: __autoShield, __shieldLastRaised, raises made
  fight,    \* a weapon selection in flight (retaliation, attackSomeone, hunt)
  conn,     \* the bot objects joinGame made, which of them `bots` maps each
            \* username to, and the outcome of the registry call just made
  race,     \* an operation raced against a timeout timer, and what it left behind
  eat,      \* the auto-eat poller's own record: __autoEatCfg and the eats it started
  raise,    \* the raiseShieldFor calls in flight and the item-use state of the bot
  refuel,   \* the output loop of the cookOrSmeltOnDevice call in flight
  chain,    \* the item name and preferDevice of a smeltItem call and the chain built
  mine,     \* the mineResource call in flight and its result
  combat,   \* what bot.pvp attacks, who started it, and the disengage timers pending
  timers,   \* the login handler, the end event and the two interval timers of one bot
  gflags,   \* the inputs and the timedOut and stalled flags of one action result
  abandon   \* the guarded action in flight and the collaborator operations it started

guardVars == <<task, inv>>
statusVars == <<slots, evCount, call, out, lastRead>>
suspendVars == <<suspendCount, suspendAutoEat, eq, autoEat, ops, opi>>
navVars == <<now, dist, nav>>
craftVars == <<craft>>
smeltVars == <<smelt>>
defenseVars == <<shield, fight>>
regVars == <<conn>>
lateVars == <<mine, combat, timers, gflags, abandon>>
otherVars == <<race, eat, raise, refuel, chain, lateVars>>

\* the state of the parts a specification does not exercise
restVars == <<navVars, craftVars, smeltVars, defenseVars, regVars, otherVars>>

vars == <<bots, task, inv, slots, evCount, call, out, lastRead,
          suspendCount, suspendAutoEat, eq, autoEat, ops, opi,
          now, dist, nav, craft, smelt, shield, fight, conn, race, eat, raise, refuel, chain,
          mine, combat, timers, gflags, abandon>>

(***************************************************************************)
(* withTask                                                                *)
(***************************************************************************)
\* getTask: the record a bot starts with
IdleTask == [running |-> FALSE, abort |-> NoAbort]

\* a bot's slots when all five are null
NullStatus == [k \in SlotKinds |-> 0]

\* no response yet
NoResp ==
  [kind |-> "none", ok |-> FALSE, error |-> "none",
   hasStatus |-> FALSE, status |-> NullStatus, hasDelta |-> FALSE]

\* statusBefore / after when no status was read (null)
NoStatus == [has |-> FALSE, ev |-> NullStatus]

\* a request slot not in use. Of statusBefore only health and food are read
\* later (lines 2346-2348), so a request keeps whether it is null, not its
\* event fields.
IdleCall == [pc |-> "idle", guarded |-> FALSE, username |-> "", before |-> FALSE]

\* no response returned in this step
NoOut ==
  [call |-> 0, known |-> FALSE, username |-> "", failure |-> "none", resp |-> NoResp]

\* no equip in flight
IdleEquip == [pc |-> "idle", site |-> "none"]

\* the suspension flag and the poller before anything happened: the counter
\* reads as 0 and the flag as false while unset; __autoEatCfg is created with
\* isEating false (line 544)
SuspendIdle ==
  /\ suspendCount = 0
  /\ suspendAutoEat = FALSE
  /\ eq = [p \in Equips |-> IdleEquip]
  /\ autoEat = [isEating |-> FALSE, hungry |-> FALSE, hasFood |-> TRUE]
  /\ ops = << >>
  /\ opi = 0

\* an invocation slot not in use
IdleInv ==
  [pc |-> "idle", guarded |-> FALSE, bot |-> "A", items |-> 0,
   aborted |-> FALSE, signalAborted |-> FALSE, result |-> "none"]

\* no navigation loop in flight
IdleNav ==
  [pc |-> "idle", fn |-> "none", reach |-> 0, timeoutMs |-> 0, start |-> 0,
   lastProgressAt |-> 0, best |-> 0, waitFrom |-> 0, result |-> "none",
   exit |-> "none", arrived |-> FALSE, timedOut |-> FALSE,
   seenBest |-> 0, seenAt |-> 0, inTime |-> FALSE]

\* the clock and the navigation helpers before any navigation started
NavIdle ==
  /\ now = 0
  /\ dist = MaxDist
  /\ nav = IdleNav

\* no craftItems call in flight
IdleCraft ==
  [pc |-> "idle", count |-> 0, per |-> 0, had |-> 0, have |-> 0, made |-> 0,
   needsTable |-> FALSE, tableNear |-> FALSE, table |-> FALSE, crafted |-> 0,
   ok |-> FALSE, remaining |-> 0, reason |-> "none", timedOut |-> FALSE,
   hasMissing |-> FALSE, missingA |-> 0, missingTable |-> FALSE]

\* no smeltItem call in flight
IdleSmelt ==
  [pc |-> "idle", sequence |-> << >>, count |-> 0, isFood |-> FALSE,
   prefer |-> "none", attempts |-> << >>, ok |-> FALSE, error |-> "none"]

\* the auto-shield state a bot is created with: __autoShield is enabled
\* (line 440), __shieldLastRaised is unset and reads as 0 (line 588); no scan
\* tick and no raiseShieldFor call has happened
IdleShield ==
  [enabled |-> TRUE, lastRaised |-> 0, lastScanAt |-> 0,
   calls |-> 0, lastCallAt |-> 0, lastBy |-> "none"]

\* no weapon selection in flight; the hand holds something that is no weapon
IdleFight ==
  [pc |-> "idle", fn |-> "none", hasBow |-> FALSE, hasArrows |-> FALSE,
   melee |-> {}, dist |-> 0, bowOk |-> FALSE, held |-> "other"]

\* a bot object joinGame has not created yet
FreeSession ==
  [pc |-> "free", username |-> "", join |-> "none", established |-> FALSE,
   left |-> FALSE]

\* no registry call made yet
NoRegCall == [op |-> "none", username |-> "", result |-> "none", gone |-> FALSE]

\* no bot object created; the registry maps no username (0: no entry)
IdleConn ==
  [sess |-> [s \in 1..MaxSessions |-> FreeSession],
   owner |-> [u \in Bots |-> 0],
   last |-> NoRegCall]

\* no operation raced against a timer; nothing left behind by earlier races
IdleRace ==
  [pc |-> "idle", fn |-> "none", op |-> "none", timer |-> "none",
   result |-> "none", cancelled |-> FALSE, leaked |-> 0, pendingStops |-> 0,
   strayStop |-> FALSE, unhandled |-> FALSE, calls |-> 0]

\* __autoEatCfg as joinGame creates it (line 543): lastWarnAt 0, lastTriedAt
\* 0; no eat started, no warning set, no tick taken
IdleEat ==
  [lastWarnAt |-> 0, lastTriedAt |-> 0, tickNow |-> 0, inFlight |-> 0,
   lastSetAt |-> 0, last |-> "none", due |-> FALSE, warned |-> FALSE]

\* a raiseShieldFor call not made yet
IdleRaise ==
  [pc |-> "idle", by |-> "none", pushed |-> FALSE, popped |-> FALSE,
   deactivated |-> FALSE, exit |-> "none", unhandled |-> FALSE]

\* no raiseShieldFor call in flight; no item in use
RaiseIdle == raise = [calls |-> [r \in 1..MaxRaises |-> IdleRaise], active |-> FALSE]

\* no cookOrSmeltOnDevice output loop in flight, none returned yet
IdleRefuel ==
  [pc |-> "idle", dev |-> "none", outputs |-> 0, outputsTarget |-> 0,
   deadline |-> 0, lastProgressAt |-> 0, outOfFuel |-> FALSE, refuelAttempts |-> 0,
   invFuel |-> 0, seen |-> "none",
   last |-> [dev |-> "none", ok |-> FALSE, outOfFuel |-> FALSE, reason |-> "none",
             refuelAttempts |-> 0]]

\* no device chain asked for
IdleChain == [pc |-> "idle", itemName |-> << >>, preferDevice |-> "", sequence |-> << >>]

\* no mineResource call in flight, none returned yet
IdleMine ==
  [pc |-> "idle", count |-> 0, blocks |-> << >>, nameLacks |-> FALSE, i |-> 1,
   completed |-> 0, failed |-> 0, equips |-> 0, navs |-> 0, digs |-> 0,
   start |-> 0, lastProgressAt |-> 0,
   ok |-> FALSE, reason |-> "none", needed |-> FALSE, remaining |-> 0,
   timedOut |-> FALSE, stalled |-> FALSE]

\* bot.pvp attacks nothing; no disengage timer is pending
IdleCombat ==
  [by |-> "none", id |-> 0, since |-> 0, fg |-> "none", timers |-> {},
   retaliations |-> 0,
   stopped |-> "none", stoppedId |-> 0, stoppedAfter |-> 0, stopper |-> 0]

\* a bot that has been created and has not logged in: no interval timer
\* exists
IdleTimers ==
  [login |-> "none", ended |-> FALSE, autoEatInterval |-> FALSE, shieldScan |-> FALSE,
   endedWhile |-> "none", eatTicks |-> 0, scanTicks |-> 0, afterEnd |-> {}]

\* no result asked for
IdleFlags ==
  [pc |-> "idle", fn |-> "none", elapsed |-> 0, since |-> 0, progress |-> 0,
   target |-> 0, outOfFuel |-> FALSE, timedOut |-> FALSE, stalled |-> FALSE]

\* no guarded action in flight; no collaborator operation in flight
IdleAbandon ==
  [pc |-> "idle", fn |-> "none", attempts |-> 0, inFlight |-> 0, calls |-> 0,
   last |-> "none"]

LateIdle == mine = IdleMine /\ combat = IdleCombat /\ timers = IdleTimers /\ gflags = IdleFlags /\ abandon = IdleAbandon

OtherIdle ==
  /\ race = IdleRace /\ eat = IdleEat /\ RaiseIdle /\ refuel = IdleRefuel
  /\ chain = IdleChain /\ LateIdle

\* the parts a specification does not exercise stay as they start
RestIdle ==
  /\ NavIdle
  /\ craft = IdleCraft
  /\ smelt = IdleSmelt
  /\ shield = IdleShield
  /\ fight = IdleFight
  /\ conn = IdleConn
  /\ OtherIdle

WithTaskBusyNever(t) == FALSE

\* withTask line 43: the test that rejects a second invocation
WithTaskBusy(t) == t.running

WithTaskAcquireNoHandle(c) == [running |-> TRUE, abort |-> NoAbort]

\* withTask lines 44-47: running = true, task.abort = the closure of invocation c
WithTaskAcquire(c) == [running |-> TRUE, abort |-> c]

WithTaskExitNoFinally(t, threw) == IF threw THEN t ELSE IdleTask

\* withTask lines 51-54: the finally block, on return and on throw alike
WithTaskExit(t, threw) == IdleTask

\* withTask line 49: the signal object handed to the body. Its aborted field
\* is initialised from the local variable `aborted` (false at that point);
\* a boolean is copied, so the field is not tied to the variable afterwards.
NewSignalAborted == FALSE

\* what a poll of signal.aborted inside the body reads
SignalPoll(c) == inv[c].signalAborted

\* the guarded invocations whose body is running on bot b
Holders(b) == {c \in Calls : inv[c].pc = "body" /\ inv[c].guarded /\ inv[c].bot = b}

\* every long-running invocation whose body is running on bot b
Running(b) == {c \in Calls : inv[c].pc = "body" /\ inv[c].bot = b}

(***************************************************************************)
(* Actions of the guard specification                                      *)
(***************************************************************************)
\* what the guard's actions leave alone
GuardFrame == UNCHANGED <<bots, statusVars, suspendVars, restVars>>

\* A guarded action (mineResource and the nine others) is invoked on bot b:
\* getBotOrThrow, then withTask up to the first await of the body.
InvokeGuarded(c, b) ==
  /\ inv[c].pc = "idle"
  /\ \E tool \in GuardedTools :
       IF WithTaskBusy(task[b])
       THEN /\ inv' = [inv EXCEPT ![c] = [IdleInv EXCEPT !.pc = "done", !.guarded = TRUE,
                                          !.bot = b, !.result = "another_task_running"]]
            /\ UNCHANGED task
       ELSE /\ task' = [task EXCEPT ![b] = WithTaskAcquire(c)]
            /\ inv' = [inv EXCEPT ![c] = [IdleInv EXCEPT !.pc = "body", !.guarded = TRUE,
                                          !.bot = b, !.signalAborted = NewSignalAborted]]
  /\ GuardFrame

\* hunt, gatherSeeds, cookWithSmoker, ...: the body starts without withTask
InvokeUnguarded(c, b) ==
  /\ inv[c].pc = "idle"
  /\ \E tool \in UnguardedLongTools :
       inv' = [inv EXCEPT ![c] = [IdleInv EXCEPT !.pc = "body", !.bot = b]]
  /\ UNCHANGED task /\ GuardFrame

\* The body starts its next work item (next block, craft attempt, device).
\* No body reads its signal (every body names it _signal), so this step does
\* not depend on a cancellation request.
BodyStep(c) ==
  /\ inv[c].pc = "body"
  /\ inv[c].items < MaxItems
  /\ inv' = [inv EXCEPT ![c].items = @ + 1]
  /\ UNCHANGED task /\ GuardFrame

\* The body ends: it returns its result or throws.
BodyEnd(c, threw) ==
  /\ inv[c].pc = "body"
  /\ inv' = [inv EXCEPT ![c].pc = "done",
                        ![c].result = IF threw THEN "error" ELSE "result"]
  /\ IF inv[c].guarded
     THEN task' = [task EXCEPT ![inv[c].bot] = WithTaskExit(@, threw)]
     ELSE UNCHANGED task
  /\ GuardFrame

\* stopAllTasks line 760: call task.abort when it is set. The closure sets the
\* local variable `aborted` of the holder's withTask call and runs the
\* registered callbacks (no body registers one).
StopAllTasks(b) ==
  /\ task[b].abort # NoAbort
  /\ inv' = [inv EXCEPT ![task[b].abort].aborted = TRUE]
  /\ UNCHANGED task /\ GuardFrame

\* the caller has taken the result of a finished invocation
Collect(c) ==
  /\ inv[c].pc = "done"
  /\ inv' = [inv EXCEPT ![c] = IdleInv]
  /\ UNCHANGED task /\ GuardFrame

GuardInit ==
  /\ bots = <<"A", "B">>
  /\ task = [b \in Bots |-> IdleTask]
  /\ inv = [c \in Calls |-> IdleInv]
  /\ slots = [b \in Bots |-> NullStatus]
  /\ evCount = 0
  /\ call = [c \in Calls |-> IdleCall]
  /\ out = NoOut
  /\ lastRead = NoStatus
  /\ SuspendIdle
  /\ RestIdle

GuardNext ==
  \/ \E c \in Calls, b \in Bots : InvokeGuarded(c, b)
  \/ \E c \in Calls, b \in Bots : InvokeUnguarded(c, b)
  \/ \E c \in Calls : BodyStep(c)
  \/ \E c \in Calls, threw \in BOOLEAN : BodyEnd(c, threw)
  \/ \E b \in Bots : StopAllTasks(b)
  \/ \E c \in Calls : Collect(c)

SpecGuard == GuardInit /\ [][GuardNext]_vars

(***************************************************************************)
(* Claims about the task guard                                             *)
(***************************************************************************)
\* C1: on one bot at most one guarded body runs at any time; a guarded
\* invocation that starts while another guarded body is running on the same
\* bot ends at once with 'another_task_running' and never runs its body, one
\* that starts while none is running runs its body; and running is false
\* whenever no guarded body is running (so also after both have completed).
C1_SingleFlight ==
  /\ [](\A b \in Bots :
          /\ Cardinality(Holders(b)) <= 1
          /\ (Holders(b) = {} => ~task[b].running))
  /\ [][\A c \in Calls :
          (inv[c].pc = "idle" /\ inv'[c].pc # "idle" /\ inv'[c].guarded) =>
            IF Holders(inv'[c].bot) # {}
            THEN inv'[c].pc = "done" /\ inv'[c].result = "another_task_running"
            ELSE inv'[c].pc = "body"]_vars

\* one invocation runs its body while the other was rejected on the same bot
C1_Witness ==
  \E c, d \in Calls :
    /\ c # d /\ inv[c].bot = inv[d].bot
    /\ inv[c].pc = "body" /\ inv[c].guarded
    /\ inv[d].pc = "done" /\ inv[d].guarded /\ inv[d].result = "another_task_running"

\* C2: whenever a guarded body ends (returned, threw, or ended after a
\* cancellation request) the bot's task state is running=false, abort=null.
C2_GuaranteedRelease ==
  [][\A c \in Calls :
       (inv[c].pc = "body" /\ inv[c].guarded /\ inv'[c].pc = "done") =>
         task'[inv[c].bot] = [running |-> FALSE, abort |-> NoAbort]]_vars

\* a guarded body that threw after stopAllTasks had requested cancellation
C2_Witness ==
  \E c \in Calls :
    /\ inv[c].pc = "done" /\ inv[c].guarded
    /\ inv[c].result = "error" /\ inv[c].aborted
    /\ task[inv[c].bot] = IdleTask

\* C3: after stopAllTasks cancelled a running guarded action, every poll of
\* its signal reads aborted=true and the action starts no further work item.
C3_CancelObserved ==
  /\ [](\A c \in Calls : (inv[c].pc = "body" /\ inv[c].aborted) => SignalPoll(c))
  /\ [][\A c \in Calls :
          (inv[c].pc = "body" /\ inv[c].aborted) => inv'[c].items = inv[c].items]_vars

\* C4: at most one long-running action body runs per bot at any time
C4_OneLongRunning == \A b \in Bots : Cardinality(Running(b)) <= 1

\* C39: a guarded invocation rejected with 'another_task_running' leaves the
\* bot's task state as it was: running stays true and the abort handle stays
\* the one of the invocation that holds the guard, so stopAllTasks reaches
\* the holder and only the holder's end sets running to false; the rejection
\* is caused by a holder on the same bot, never by one on another bot.
C39_RejectionLeavesGuard ==
  /\ [](\A b \in Bots : task[b].running => Holders(b) = {task[b].abort})
  /\ [][\A c \in Calls :
          (inv[c].pc = "idle" /\ inv'[c].pc = "done"
             /\ inv'[c].result = "another_task_running") =>
            /\ task' = task
            /\ task[inv'[c].bot].running
            /\ Holders(inv'[c].bot) # {} /\ c \notin Holders(inv'[c].bot)]_vars
  /\ [][\A c \in Calls :
          (~inv[c].aborted /\ inv'[c].aborted) => c \in Holders(inv[c].bot)]_vars
  /\ [][\A b \in Bots :
          (task[b].running /\ ~task'[b].running) =>
            /\ inv[task[b].abort].pc = "body" /\ inv[task[b].abort].bot = b
            /\ inv'[task[b].abort].pc = "done"
            /\ inv'[task[b].abort].result # "another_task_running"]_vars

\* an invocation was rejected on a bot whose guard another invocation holds;
\* the handle is still the holder's and stopAllTasks has reached the holder
C39_Witness ==
  \E c, d \in Calls :
    /\ c # d /\ inv[c].bot = inv[d].bot
    /\ inv[d].pc = "done" /\ inv[d].result = "another_task_running"
    /\ inv[c].pc = "body" /\ inv[c].guarded /\ inv[c].aborted
    /\ task[inv[c].bot] = [running |-> TRUE, abort |-> c]

(***************************************************************************)
(* getStatus and sendToolCall                                              *)
(***************************************************************************)
\* getBotOrThrow's and sendToolCall's `bots.has(username)`
InRegistry(u) == \E i \in 1..Len(bots) : bots[i] = u

\* getBotOrThrow: the named bot, the first bot when no name is given,
\* "none" when it throws ('not found', 'No active bots')
GetBotOrThrow(u) ==
  IF u # "" /\ InRegistry(u) THEN u
  ELSE IF u # "" THEN "none"
  ELSE IF Len(bots) = 0 THEN "none"
  ELSE bots[1]

\* sendToolCall lines 2276 and 2344: the bot whose status is attached,
\* "none" when the request names no bot or a bot that is not registered
StatusBot(u) == IF u # "" /\ InRegistry(u) THEN u ELSE "none"

\* getStatus lines 233-237, 301: the slot values it returns
GetStatusRead(s) == [k \in SlotKinds |-> s[k]]

GetStatusKeepsDamage(s) == [k \in SlotKinds |-> IF k = "lastDamage" THEN s[k] ELSE 0]

\* getStatus lines 291-300: the slots after the call
GetStatusCleared(s) == [k \in SlotKinds |-> 0]

\* sendToolCall line 2340: the switch's default branch
UnknownToolResponse == [NoResp EXCEPT !.kind = "result", !.ok = FALSE, !.error = "Unknown tool"]

SendToolCallUncaught(err) == [NoResp EXCEPT !.kind = "rejected", !.error = err]

\* sendToolCall lines 2355-2357: the outer catch turns whatever was thrown
\* inside the try into the result {ok: false, error}
ErrorResponse(err) == [NoResp EXCEPT !.kind = "result", !.ok = FALSE, !.error = err]

\* sendToolCall lines 2343-2351: the result after an action that returned;
\* `status` is null and `delta` absent when no status was read
SuccessResponse(ok, after, before) ==
  [kind |-> "result", ok |-> ok, error |-> "none",
   hasStatus |-> after.has, status |-> after.ev,
   hasDelta |-> after.has /\ before]

\* selfDefense is enabled at joinGame (line 439) and no tool changes it
SelfDefenseEnabled == TRUE

\* what the actions of the status specification leave alone
StatusFrame == UNCHANGED <<bots, inv, suspendVars, restVars>>

\* a response leaves sendToolCall
Returned(c, known, u, failure, resp) ==
  [call |-> c, known |-> known, username |-> u, failure |-> failure, resp |-> resp]

\* sendToolCall up to the first suspension: read the request, take
\* statusBefore, enter the switch. An unknown tool, a bot that is not found
\* and a busy guard all end the request in the same run.
StartCall(c, known, guarded, u) ==
  /\ call[c].pc = "idle"
  /\ guarded => known
  /\ LET sb == StatusBot(u)
         before == IF sb # "none"
                   THEN [has |-> TRUE, ev |-> GetStatusRead(slots[sb])]
                   ELSE NoStatus
         target == GetBotOrThrow(u)
     IN /\ slots' = IF sb # "none"
                    THEN [slots EXCEPT ![sb] = GetStatusCleared(@)]
                    ELSE slots
        /\ lastRead' = before
        /\ IF ~known
           THEN /\ out' = Returned(c, known, u, "none", UnknownToolResponse)
                /\ UNCHANGED <<task, call>>
           ELSE IF target = "none"
           THEN /\ out' = Returned(c, known, u, "not_found", ErrorResponse("not_found"))
                /\ UNCHANGED <<task, call>>
           ELSE IF guarded /\ WithTaskBusy(task[target])
           THEN /\ out' = Returned(c, known, u, "another_task_running",
                                   ErrorResponse("another_task_running"))
                /\ UNCHANGED <<task, call>>
           ELSE /\ call' = [call EXCEPT ![c] = [pc |-> "action", guarded |-> guarded,
                                                username |-> u, before |-> before.has]]
                /\ task' = IF guarded
                           THEN [task EXCEPT ![target] = WithTaskAcquire(c)]
                           ELSE task
                /\ out' = NoOut
  /\ UNCHANGED evCount
  /\ StatusFrame

\* a request without params: reading params.name throws inside the outer try
StartMalformed(c) ==
  /\ call[c].pc = "idle"
  /\ out' = Returned(c, FALSE, "", "bad_request", ErrorResponse("bad_request"))
  /\ lastRead' = NoStatus
  /\ UNCHANGED <<task, slots, evCount, call>>
  /\ StatusFrame

\* The awaited action settles: it returned a result (whose ok is its own) or
\* threw. withTask's finally runs first; then the status is attached (a
\* result) or the outer catch builds the error result (a throw).
EndCall(c, threw, ok) ==
  /\ call[c].pc = "action"
  /\ LET u == call[c].username
         target == GetBotOrThrow(u)
         sb == StatusBot(u)
         after == IF sb # "none"
                  THEN [has |-> TRUE, ev |-> GetStatusRead(slots[sb])]
                  ELSE NoStatus
     IN /\ task' = IF call[c].guarded
                   THEN [task EXCEPT ![target] = WithTaskExit(@, threw)]
                   ELSE task
        /\ IF threw
           THEN /\ out' = Returned(c, TRUE, u, "collaborator", ErrorResponse("collaborator"))
                /\ lastRead' = NoStatus
                /\ UNCHANGED slots
           ELSE /\ out' = Returned(c, TRUE, u, "none",
                                   SuccessResponse(ok, after, call[c].before))
                /\ lastRead' = after
                /\ slots' = IF sb # "none"
                            THEN [slots EXCEPT ![sb] = GetStatusCleared(@)]
                            ELSE slots
  /\ call' = [call EXCEPT ![c] = IdleCall]
  /\ UNCHANGED evCount
  /\ StatusFrame

\* an event handler returns no response and calls no getStatus
NoOutput == out' = NoOut /\ lastRead' = NoStatus

\* entityHurt handler lines 457-479: lastDamage is set; lastDefense is set
\* when self-defense is enabled and the event names an attacker
EntityHurt(b, attacker) ==
  /\ InRegistry(b)
  /\ evCount < MaxEvents
  /\ evCount' = evCount + 1
  /\ slots' = [slots EXCEPT ![b]["lastDamage"] = evCount + 1,
                            ![b]["lastDefense"] =
                               IF SelfDefenseEnabled /\ attacker THEN evCount + 1 ELSE @]
  /\ UNCHANGED <<task, call>>
  /\ NoOutput
  /\ StatusFrame

\* death handler lines 490-499
Death(b) ==
  /\ InRegistry(b)
  /\ evCount < MaxEvents
  /\ evCount' = evCount + 1
  /\ slots' = [slots EXCEPT ![b]["lastDeath"] = evCount + 1]
  /\ UNCHANGED <<task, call>>
  /\ NoOutput
  /\ StatusFrame

\* updateSlot handler lines 526-537: an item with durability left its slot
ItemBroke(b) ==
  /\ InRegistry(b)
  /\ evCount < MaxEvents
  /\ evCount' = evCount + 1
  /\ slots' = [slots EXCEPT ![b]["lastBroken"] = evCount + 1]
  /\ UNCHANGED <<task, call>>
  /\ NoOutput
  /\ StatusFrame

\* auto-eat interval lines 564-566, 572-574: a tick that raises the warning
HungerWarning(b) ==
  /\ InRegistry(b)
  /\ evCount < MaxEvents
  /\ evCount' = evCount + 1
  /\ slots' = [slots EXCEPT ![b]["lastHungerWarning"] = evCount + 1]
  /\ UNCHANGED <<task, call>>
  /\ NoOutput
  /\ StatusFrame

StatusInit ==
  /\ bots = <<"A">>
  /\ task = [b \in Bots |-> IdleTask]
  /\ inv = [c \in Calls |-> IdleInv]
  /\ slots = [b \in Bots |-> NullStatus]
  /\ evCount = 0
  /\ call = [c \in Calls |-> IdleCall]
  /\ out = NoOut
  /\ lastRead = NoStatus
  /\ SuspendIdle
  /\ RestIdle

StatusNext ==
  \/ \E c \in Calls, known \in BOOLEAN, guarded \in BOOLEAN, u \in Usernames :
        StartCall(c, known, guarded, u)
  \/ \E c \in Calls : StartMalformed(c)
  \/ \E c \in Calls, threw \in BOOLEAN, ok \in BOOLEAN : EndCall(c, threw, ok)
  \/ \E b \in Bots, attacker \in BOOLEAN : EntityHurt(b, attacker)
  \/ \E b \in Bots : Death(b)
  \/ \E b \in Bots : ItemBroke(b)
  \/ \E b \in Bots : HungerWarning(b)

SpecStatus == StatusInit /\ [][StatusNext]_vars

(***************************************************************************)
(* Claims about getStatus and sendToolCall                                 *)
(***************************************************************************)
\* C5: every one-shot event leaves its slot only by being returned in the
\* status block of a response (it is never dropped), and an event a response
\* returns is taken out of its slot by that response (it is never returned
\* to a second caller).
C5_ExactlyOnce ==
  /\ [][\A b \in Bots, k \in SlotKinds :
          (slots[b][k] # 0 /\ slots'[b][k] = 0) =>
            (out'.call # 0 /\ out'.resp.hasStatus /\ out'.resp.status[k] = slots[b][k])]_vars
  /\ [][\A k \in SlotKinds :
          (out'.call # 0 /\ out'.resp.status[k] # 0) =>
            \E b \in Bots : slots[b][k] = out'.resp.status[k] /\ slots'[b][k] = 0]_vars

\* C6: getStatus is read-and-clear. After a call all five slots of the bot
\* are null; a slot is cleared only by a getStatus call, which returns the
\* event it clears; and of two consecutive calls with no event in between the
\* second returns null in every slot.
C6_ReadAndClear ==
  /\ [](lastRead.has => \A b \in Bots : InRegistry(b) => slots[b] = NullStatus)
  /\ [][\A b \in Bots, k \in SlotKinds :
          (slots[b][k] # 0 /\ slots'[b][k] = 0) =>
            (lastRead'.has /\ lastRead'.ev[k] = slots[b][k])]_vars
  /\ [][(lastRead.has /\ lastRead'.has) => lastRead'.ev = NullStatus]_vars

\* a getStatus call has just returned a damage event and cleared its slot
C6_Witness ==
  /\ lastRead.has
  /\ lastRead.ev["lastDamage"] # 0
  /\ slots["A"]["lastDamage"] = 0

\* C7: every response for a dispatched action on an existing bot (named or
\* not, action succeeded or failed) carries ok, the status block and the
\* delta block.
C7_StatusAlwaysAttached ==
  (out.call # 0 /\ out.known /\ GetBotOrThrow(out.username) # "none") =>
    (out.resp.kind = "result" /\ out.resp.hasStatus /\ out.resp.hasDelta)

\* C8: sendToolCall never rejects; when the action raised a failure the
\* result has ok=false and an error text.
C8_NeverThrows ==
  out.call # 0 =>
    /\ out.resp.kind = "result"
    /\ out.failure # "none" => (~out.resp.ok /\ out.resp.error # "none")

\* a request that lost the guard to a running action got its error result
C8_Witness ==
  /\ out.call # 0
  /\ out.failure = "another_task_running"
  /\ out.resp.kind = "result" /\ ~out.resp.ok
  /\ \E c \in Calls : call[c].pc = "action" /\ call[c].guarded

(***************************************************************************)
(* The auto-eat suspension flag, equip operations and the auto-eat poller  *)
(***************************************************************************)
\* pushSuspendAutoEat lines 219-220: the counter after a push
PushCount(c) == c + 1

PopCountNoFloor(c) == c - 1

\* popSuspendAutoEat lines 225-227: the counter after a pop, Math.max(0, c - 1)
PopCount(c) == IF c - 1 > 0 THEN c - 1 ELSE 0

\* popSuspendAutoEat line 228: the flag after a pop that left the counter at n
PopFlag(n) == n > 0

\* the places that start an equip, by the function that holds the call
EquipSites ==
  {"equipBowIfAvailable", "equipBestMeleeWeapon", "tool.equipForBlock",
   "equipFromList", "raiseShieldFor", "equipItem"}

\* whether the equip at that place sits between pushSuspendAutoEat and a
\* finally with popSuspendAutoEat: lines 116, 146, 407 and 2154 do; line 127
\* (equipBestMeleeWeapon) and line 133 (the tool plugin's equipForBlock) are
\* bare awaits
Wrapped(site) ==
  site \in {"equipBowIfAvailable", "equipFromList", "raiseShieldFor", "equipItem"}

\* what the actions of the suspension specification leave alone
SuspendFrame == UNCHANGED <<bots, task, inv, call, out, lastRead, ops, opi, restVars>>

\* An equip starts at one of the sites: retaliation, attackSomeone and hunt
\* go through equipBowIfAvailable and equipBestMeleeWeapon, mineResource
\* through equipBestToolForBlock (the plugin, else equipFromList), a shield
\* raise through raiseShieldFor, the equipItem tool through its own call.
EquipStart(p, site) ==
  /\ eq[p].pc = "idle"
  /\ eq' = [eq EXCEPT ![p] = [pc |-> "equipping", site |-> site]]
  /\ IF Wrapped(site)
     THEN suspendCount' = PushCount(suspendCount) /\ suspendAutoEat' = TRUE
     ELSE UNCHANGED <<suspendCount, suspendAutoEat>>
  /\ UNCHANGED <<autoEat, slots, evCount>>
  /\ SuspendFrame

\* The equip settles (resolved or rejected alike): a wrapped site runs its
\* finally.
EquipEnd(p) ==
  /\ eq[p].pc = "equipping"
  /\ eq' = [eq EXCEPT ![p] = IdleEquip]
  /\ IF Wrapped(eq[p].site)
     THEN /\ suspendCount' = PopCount(suspendCount)
          /\ suspendAutoEat' = PopFlag(PopCount(suspendCount))
     ELSE UNCHANGED <<suspendCount, suspendAutoEat>>
  /\ UNCHANGED <<autoEat, slots, evCount>>
  /\ SuspendFrame

\* lines 564-566 and 572-574: the hunger warning; `due` says whether the
\* warning cooldown has elapsed
RaiseWarning(due) ==
  IF due
  THEN /\ evCount < MaxEvents
       /\ evCount' = evCount + 1
       /\ slots' = [slots EXCEPT !["A"]["lastHungerWarning"] = evCount + 1]
  ELSE UNCHANGED <<slots, evCount>>

\* One tick of the auto-eat interval (lines 547-578) that gets past its early
\* returns: food below the threshold, flag clear, no eat in flight. With food
\* in the inventory it starts an eat, else it may raise the warning.
AutoEatTick(due) ==
  /\ autoEat.hungry
  /\ ~suspendAutoEat
  /\ ~autoEat.isEating
  /\ IF autoEat.hasFood
     THEN /\ autoEat' = [autoEat EXCEPT !.isEating = TRUE]
          /\ UNCHANGED <<slots, evCount>>
     ELSE /\ RaiseWarning(due)
          /\ UNCHANGED autoEat
  /\ UNCHANGED <<suspendCount, suspendAutoEat, eq>>
  /\ SuspendFrame

\* The eat started by a tick settles (lines 562-570): on failure the warning
\* is raised when no food is left and the cooldown has elapsed; isEating is
\* reset in the finally.
EatEnd(failed, stillHasFood, due) ==
  /\ autoEat.isEating
  /\ IF failed
     THEN /\ autoEat' = [autoEat EXCEPT !.isEating = FALSE, !.hasFood = stillHasFood]
          /\ RaiseWarning(due /\ ~stillHasFood)
     ELSE /\ autoEat' = [isEating |-> FALSE, hungry |-> FALSE, hasFood |-> stillHasFood]
          /\ UNCHANGED <<slots, evCount>>
  /\ UNCHANGED <<suspendCount, suspendAutoEat, eq>>
  /\ SuspendFrame

\* the world: food drops below the threshold, food is picked up
FoodChanges(hungry, hasFood) ==
  /\ ~autoEat.isEating
  /\ autoEat' = [autoEat EXCEPT !.hungry = hungry, !.hasFood = hasFood]
  /\ UNCHANGED <<suspendCount, suspendAutoEat, eq, slots, evCount>>
  /\ SuspendFrame

SuspendInit ==
  /\ bots = <<"A">>
  /\ task = [b \in Bots |-> IdleTask]
  /\ inv = [c \in Calls |-> IdleInv]
  /\ slots = [b \in Bots |-> NullStatus]
  /\ evCount = 0
  /\ call = [c \in Calls |-> IdleCall]
  /\ out = NoOut
  /\ lastRead = NoStatus
  /\ SuspendIdle
  /\ RestIdle

SuspendNext ==
  \/ \E p \in Equips, site \in EquipSites : EquipStart(p, site)
  \/ \E p \in Equips : EquipEnd(p)
  \/ \E due \in BOOLEAN : AutoEatTick(due)
  \/ \E failed \in BOOLEAN, stillHasFood \in BOOLEAN, due \in BOOLEAN :
        EatEnd(failed, stillHasFood, due)
  \/ \E hungry \in BOOLEAN, hasFood \in BOOLEAN : FoodChanges(hungry, hasFood)

SpecSuspend == SuspendInit /\ [][SuspendNext]_vars

(***************************************************************************)
(* pushSuspendAutoEat / popSuspendAutoEat called in any order              *)
(***************************************************************************)
RECURSIVE OpSeqs(_)
\* all sequences of n calls
OpSeqs(n) ==
  IF n = 0 THEN {<< >>}
  ELSE {Append(q, o) : q \in OpSeqs(n - 1), o \in {"push", "pop"}}

\* the next call of the sequence is pushSuspendAutoEat
PushCall ==
  /\ opi < Len(ops)
  /\ ops[opi + 1] = "push"
  /\ opi' = opi + 1
  /\ suspendCount' = PushCount(suspendCount)
  /\ suspendAutoEat' = TRUE
  /\ UNCHANGED <<bots, guardVars, statusVars, eq, autoEat, ops, restVars>>

\* the next call of the sequence is popSuspendAutoEat
PopCall ==
  /\ opi < Len(ops)
  /\ ops[opi + 1] = "pop"
  /\ opi' = opi + 1
  /\ suspendCount' = PopCount(suspendCount)
  /\ suspendAutoEat' = PopFlag(PopCount(suspendCount))
  /\ UNCHANGED <<bots, guardVars, statusVars, eq, autoEat, ops, restVars>>

CountInit ==
  /\ bots = <<"A">>
  /\ task = [b \in Bots |-> IdleTask]
  /\ inv = [c \in Calls |-> IdleInv]
  /\ slots = [b \in Bots |-> NullStatus]
  /\ evCount = 0
  /\ call = [c \in Calls |-> IdleCall]
  /\ out = NoOut
  /\ lastRead = NoStatus
  /\ suspendCount = 0
  /\ suspendAutoEat = FALSE
  /\ eq = [p \in Equips |-> IdleEquip]
  /\ autoEat = [isEating |-> FALSE, hungry |-> FALSE, hasFood |-> TRUE]
  /\ ops \in OpSeqs(MaxOps)
  /\ opi = 0
  /\ RestIdle

CountNext == PushCall \/ PopCall

SpecCount == CountInit /\ [][CountNext]_vars

(***************************************************************************)
(* Claims about the suspension flag                                        *)
(***************************************************************************)
\* C9: whatever the order of pushSuspendAutoEat and popSuspendAutoEat calls,
\* pops without a matching push included, the suspend count is never negative.
C9_CountNeverNegative == suspendCount >= 0

\* a pop was called with no push before it, and the count is still 0
C9_Witness == opi >= 1 /\ ops[1] = "pop" /\ suspendCount = 0

\* C10: every equip in flight holds the suspension flag, and the auto-eat
\* poller starts no eat while an equip is in flight.
C10_EquipHoldsFlag ==
  /\ [](\A p \in Equips : eq[p].pc = "equipping" => suspendAutoEat)
  /\ [][(~autoEat.isEating /\ autoEat'.isEating) =>
          \A p \in Equips : eq[p].pc # "equipping"]_vars

(***************************************************************************)
(* The navigation loops: pathfindToPredicate and goToKnownLocation         *)
(***************************************************************************)
\* pathfindToPredicate line 95 (idleMs) and goToKnownLocation line 668
IdleMs == 15000
\* pathfindToPredicate line 86: the default of timeoutMs
DefaultTimeoutMs == 45000
\* goToKnownLocation line 653: the default of maxMs
DefaultMaxMs == 60000
\* lines 101 and 667: an improvement must exceed 0.25 blocks (one quarter)
Epsilon == 1
\* lines 86 and 652: the default range of one block, in quarter blocks
DefaultRange == 4

\* lines 100 and 666: Math.max(1, range) + 0.5, in quarter blocks
GoalReach(range) == (IF range > 4 THEN range ELSE 4) + 2

\* the distances told apart: at the goal (all of them alike) and outside it
Dists == GoalReach(DefaultRange)..MaxDist

\* `best = Infinity`: larger than any distance plus the epsilon
Infinity == MaxDist + Epsilon + 1

NavFns == {"pathfindToPredicate", "goToKnownLocation"}

\* the loop condition, lines 98 and 664
LoopRuns(n, t) == t - n.start < n.timeoutMs

\* lines 100 and 666: close enough
Reached(n, d) == d <= n.reach

ImprovesNever(d, best) == FALSE

\* lines 101 and 667: dist + 0.25 < best
Improves(d, best) == d + Epsilon < best

StalledNever(t, lastProgressAt) == FALSE

\* lines 102 and 668: Date.now() - lastProgressAt > idleMs
Stalled(t, lastProgressAt) == t - lastProgressAt > IdleMs

\* goToKnownLocation line 673: timedOut: !arrived
TimedOutFlag(arrived) == ~arrived

\* what an observer of the polled distances has seen: the best sample and
\* when a sample last beat the best one by more than 0.25
SeenAfter(n, d, t) ==
  IF n.seenBest - d > Epsilon
  THEN [n EXCEPT !.seenBest = d, !.seenAt = t]
  ELSE n

\* what the navigation actions leave alone
NavFrame ==
  UNCHANGED <<bots, guardVars, statusVars, suspendVars, craftVars, smeltVars,
              defenseVars, regVars, otherVars>>

\* Lines 87-97 and 650-663: the target is looked up, the goal is set, the
\* loop variables are initialised. pathfindToPredicate throws when findBlock
\* finds no block.
NavStart(fn, found, d0) ==
  /\ nav.pc = "idle"
  /\ fn = "goToKnownLocation" => found
  /\ dist' = d0
  /\ nav' = IF ~found
            THEN [IdleNav EXCEPT !.pc = "done", !.fn = fn, !.result = "target_not_found",
                                 !.exit = "not_found"]
            ELSE [IdleNav EXCEPT !.pc = "poll", !.fn = fn,
                    !.reach = GoalReach(DefaultRange),
                    !.timeoutMs = IF fn = "pathfindToPredicate"
                                  THEN DefaultTimeoutMs ELSE DefaultMaxMs,
                    !.start = now, !.lastProgressAt = now, !.best = Infinity,
                    !.seenBest = Infinity, !.seenAt = now,
                    !.inTime = (d0 <= GoalReach(DefaultRange))]
  /\ UNCHANGED now
  /\ NavFrame

\* how the call ends once the loop is left through `exit`: pathfindToPredicate
\* throws at line 102 or 105 or returns the block, goToKnownLocation returns
\* its record (lines 671-673)
NavEnd(n, exit) ==
  LET arrived == exit = "arrived"
  IN [n EXCEPT !.pc = "done", !.exit = exit,
        !.arrived = arrived,
        !.timedOut = IF n.fn = "goToKnownLocation" THEN TimedOutFlag(arrived) ELSE FALSE,
        !.result = IF n.fn = "goToKnownLocation" THEN "returned"
                   ELSE IF exit = "arrived" THEN "found"
                   ELSE IF exit = "stalled" THEN "navigation_stalled"
                   ELSE "navigation_timeout"]

\* One iteration of the loop, lines 98-103 and 664-669, up to the next await
\* or to the end of the call.
NavPoll ==
  /\ nav.pc = "poll"
  /\ LET n == SeenAfter(nav, dist, now)
         improved == Improves(dist, nav.best)
         m == IF improved
              THEN [n EXCEPT !.best = dist, !.lastProgressAt = now]
              ELSE n
     IN nav' = IF ~LoopRuns(nav, now) THEN NavEnd(n, "deadline")
               ELSE IF Reached(nav, dist) THEN NavEnd(n, "arrived")
               ELSE IF Stalled(now, m.lastProgressAt) THEN NavEnd(m, "stalled")
               ELSE [m EXCEPT !.pc = "wait", !.waitFrom = now]
  /\ UNCHANGED <<now, dist>>
  /\ NavFrame

\* bot.waitForTicks(5) resolves (lines 103 and 669)
NavWaitEnd ==
  /\ nav.pc = "wait"
  /\ now > nav.waitFrom
  /\ nav' = [nav EXCEPT !.pc = "poll"]
  /\ UNCHANGED <<now, dist>>
  /\ NavFrame

\* time passes while the loop awaits its ticks
Tick ==
  /\ nav.pc = "wait"
  /\ now - nav.waitFrom < MaxWaitSteps * StepMs
  /\ now' = now + StepMs
  /\ UNCHANGED <<dist, nav>>
  /\ NavFrame

\* The pathfinder (or the world) moves the bot while the loop awaits: the
\* distance becomes d. inTime records that the bot is at the goal and got
\* there before the deadline.
Move(d) ==
  /\ nav.pc = "wait"
  /\ d # dist
  /\ dist' = d
  /\ nav' = [nav EXCEPT !.inTime = (Reached(nav, d) /\ LoopRuns(nav, now))]
  /\ UNCHANGED now
  /\ NavFrame

NavInit ==
  /\ bots = <<"A">>
  /\ task = [b \in Bots |-> IdleTask]
  /\ inv = [c \in Calls |-> IdleInv]
  /\ slots = [b \in Bots |-> NullStatus]
  /\ evCount = 0
  /\ call = [c \in Calls |-> IdleCall]
  /\ out = NoOut
  /\ lastRead = NoStatus
  /\ SuspendIdle
  /\ RestIdle

NavNext ==
  \/ \E fn \in NavFns, found \in BOOLEAN, d0 \in Dists : NavStart(fn, found, d0)
  \/ NavPoll
  \/ NavWaitEnd
  \/ Tick
  \/ \E d \in Dists : Move(d)

SpecNav == NavInit /\ [][NavNext]_vars

(***************************************************************************)
(* Claims about the navigation loops                                       *)
(***************************************************************************)
\* how long the polled distance has been frozen at time t
FrozenFor(n, t) == t - n.seenAt

C12_ProgressNeverStalls ==
  /\ [](nav.result = "navigation_stalled" => FrozenFor(nav, now) > IdleMs)
  /\ [][(/\ nav.pc = "poll" /\ nav.fn = "pathfindToPredicate"
         /\ ~LoopRuns(nav, now) /\ ~Reached(nav, dist)) =>
          nav'.result = "navigation_timeout"]_vars
  /\ []((nav.pc = "done" /\ nav.fn = "pathfindToPredicate" /\ nav.inTime) =>
          nav.result \notin {"navigation_stalled", "navigation_timeout"})

\* C12, amended: as above, but the third part holds for a target that a poll
\* taken before the deadline finds reached: that poll returns the block. A
\* bot that gets to the target during the last wait before the deadline is
\* not seen and the call fails with 'navigation_timeout'.
C12_ProgressNeverStallsAtPoll ==
  /\ [](nav.result = "navigation_stalled" => FrozenFor(nav, now) > IdleMs)
  /\ [][(/\ nav.pc = "poll" /\ nav.fn = "pathfindToPredicate"
         /\ ~LoopRuns(nav, now) /\ ~Reached(nav, dist)) =>
          nav'.result = "navigation_timeout"]_vars
  /\ [][(/\ nav.pc = "poll" /\ nav.fn = "pathfindToPredicate"
         /\ LoopRuns(nav, now) /\ Reached(nav, dist)) =>
          nav'.result = "found"]_vars

\* the distance kept improving within every idle window and the deadline
\* passed with the target not reached
C12_Witness ==
  /\ nav.fn = "pathfindToPredicate"
  /\ nav.result = "navigation_timeout"
  /\ ~Reached(nav, dist)
  /\ FrozenFor(nav, now) <= IdleMs
  /\ nav.seenBest < MaxDist

\* C13: a goToKnownLocation run that left its loop because of the stall check
\* is not reported with timedOut=true.
C13_StallIsNotTimedOut ==
  (nav.pc = "done" /\ nav.fn = "goToKnownLocation" /\ nav.exit = "stalled") =>
    ~nav.timedOut

(***************************************************************************)
(* craftItems                                                              *)
(***************************************************************************)
\* bot.recipesFor(item.id, null, 1, table) (lines 1046, 1080): the recipes of
\* the item that the current inventory can make at least once in that
\* context. The item has one recipe, which needs `per` units of ingredient A
\* and, when needsTable, a crafting table.
RecipesFor(have, per, needsTable, table) == have >= per /\ (needsTable => table)

\* Math.max(1, count - crafted), line 1214
UnitsToReport(count, crafted) == IF count - crafted > 1 THEN count - crafted ELSE 1

\* computeMissingFor (lines 1087-1127) for the one ingredient: the count of
\* its missingItems entry, 0 when it has no entry (have >= need)
ComputeMissingFor(units, per, have) ==
  IF have < per * units THEN per * units - have ELSE 0

\* line 1215: ok: crafted > 0
CraftOk(crafted) == crafted > 0

\* line 1215: remaining: Math.max(0, count - crafted)
CraftRemaining(count, crafted) == IF count - crafted > 0 THEN count - crafted ELSE 0

\* line 1186: idleMs
CraftIdleMs == 12000

\* line 1210: Date.now() - lastProgressAt > idleMs
CraftStalled(t, lastProgressAt) == t - lastProgressAt > CraftIdleMs

\* what the craftItems actions leave alone
CraftFrame ==
  UNCHANGED <<bots, guardVars, statusVars, suspendVars, navVars, smeltVars,
              defenseVars, regVars, otherVars>>

\* Lines 1039-1085: look the recipes up without a table, find or place a
\* crafting table when none is listed, walk to it, look the recipes up again.
\* The call returns early with 'missing_table' (line 1053) or 'no_recipe'
\* (line 1082); neither record has a missingItems entry for an ingredient.
CraftStart(n, k, a, needsTable, tableNear, tableItem) ==
  /\ craft.pc = "idle"
  /\ LET req == [IdleCraft EXCEPT !.count = n, !.per = k, !.had = a, !.have = a,
                                  !.needsTable = needsTable, !.tableNear = tableNear]
         noTable == RecipesFor(a, k, needsTable, FALSE)
         mustPlace == ~noTable /\ ~tableNear
         table == tableNear \/ (mustPlace /\ tableItem)
     IN craft' =
          IF mustPlace /\ ~tableItem
          THEN [req EXCEPT !.pc = "done", !.remaining = n, !.reason = "missing_table",
                           !.hasMissing = TRUE, !.missingTable = TRUE]
          ELSE IF ~RecipesFor(a, k, needsTable, table)
          THEN [req EXCEPT !.pc = "done", !.remaining = n, !.reason = "no_recipe",
                           !.table = table]
          ELSE [req EXCEPT !.pc = "loop", !.table = table]
  /\ CraftFrame

\* lines 1213-1215: the record returned after the loop
CraftReturn(c, reason, late) ==
  [c EXCEPT !.pc = "done",
            !.reason = reason,
            !.timedOut = late /\ c.crafted < c.count,
            !.ok = CraftOk(c.crafted),
            !.remaining = CraftRemaining(c.count, c.crafted),
            !.hasMissing = TRUE,
            !.missingA = IF c.crafted < c.count
                         THEN ComputeMissingFor(UnitsToReport(c.count, c.crafted),
                                                c.per, c.have)
                         ELSE 0]

\* One pass of the attempt loop (lines 1186-1211). `late` is what the clock
\* says about the deadline; `outcome` is what bot.craft(recipe, 1, table) did:
\* it used `per` units and the count of the item rose by `gain` (what one
\* craft of the recipe yields, and what came into the inventory otherwise),
\* it threw, it took longer than the 8 s of craftWithTimeout, or it resolved
\* and left the item count as it was.
CraftAttemptOf(outcome, gain, late) ==
  /\ craft.pc = "loop"
  /\ outcome = "crafted" => craft.have >= craft.per
  /\ craft' =
       IF ~(craft.crafted < craft.count /\ ~late)
       THEN CraftReturn(craft, craft.reason, late)
       ELSE IF outcome = "crafted"
       THEN LET made == craft.made + gain
                delta == IF made - craft.crafted > 0 THEN made - craft.crafted ELSE 0
                c == [craft EXCEPT !.have = @ - craft.per, !.made = made,
                                   !.crafted = @ + delta]
            \* lastProgressAt is set (line 1199) in the same turn as the
            \* stall test of line 1210 reads the clock
            IN IF CraftStalled(now, now)
               THEN CraftReturn(c, "craft_stalled", late)
               ELSE c
       ELSE IF outcome = "threw"
       THEN CraftReturn(craft, "missing_resources", late)
       ELSE IF outcome = "timeout"
       THEN CraftReturn(craft, "craft_timeout", late)
       ELSE CraftReturn(craft, "unknown", late)
  /\ CraftFrame

\* the same for a recipe that yields one item, nothing else changing the
\* count of the item
CraftAttempt(outcome, late) ==
  /\ craft.pc = "loop"
  /\ CraftAttemptOf(outcome, 1, late)

CraftInit ==
  /\ bots = <<"A">>
  /\ task = [b \in Bots |-> IdleTask]
  /\ inv = [c \in Calls |-> IdleInv]
  /\ slots = [b \in Bots |-> NullStatus]
  /\ evCount = 0
  /\ call = [c \in Calls |-> IdleCall]
  /\ out = NoOut
  /\ lastRead = NoStatus
  /\ SuspendIdle
  /\ RestIdle

CraftNext ==
  \/ \E n \in 1..MaxCount, k \in 1..MaxPer, a \in 0..MaxHave,
        needsTable \in BOOLEAN, tableNear \in BOOLEAN, tableItem \in BOOLEAN :
        CraftStart(n, k, a, needsTable, tableNear, tableItem)
  \/ \E outcome \in {"crafted", "threw", "timeout", "no_output"}, late \in BOOLEAN :
        CraftAttempt(outcome, late)

SpecCraft == CraftInit /\ [][CraftNext]_vars

(***************************************************************************)
(* Claims about craftItems                                                 *)
(***************************************************************************)
\* C14: a craftItems call for N items of a recipe needing k units of A per
\* craft, with a < N*k units of A in the inventory (and a crafting table in
\* reach when the recipe needs one), returns crafted <= floor(a/k), ok exactly
\* when crafted > 0, remaining = N - crafted, and a missingItems entry for A
\* whose count is remaining*k minus the A left in the inventory.
C14_PartialCraft ==
  (/\ craft.pc = "done"
   /\ craft.had < craft.count * craft.per
   /\ craft.needsTable => craft.tableNear) =>
    /\ craft.crafted <= craft.had \div craft.per
    /\ craft.ok = (craft.crafted > 0)
    /\ craft.remaining = craft.count - craft.crafted
    /\ craft.hasMissing
    /\ craft.missingA > 0
    /\ craft.missingA = craft.remaining * craft.per - craft.have

\* the same for an inventory that can make the item at least once
C14_PartialCraftFromOne ==
  (craft.had >= craft.per) => C14_PartialCraft

(***************************************************************************)
(* smeltItem, cookOrSmeltOnDevice and cookOnCampfire                       *)
(***************************************************************************)
\* cookOnCampfire line 1452: maxMs
CampfireMaxMs == 45000

Prefers == {"none", "campfire", "smoker", "blast_furnace", "furnace"}

\* sequence.includes(dev)
Includes(sequence, dev) == \E i \in 1..Len(sequence) : sequence[i] = dev

\* smeltItem lines 1478-1493: the device chain
SmeltSequence(prefer, isFood, isOre) ==
  IF prefer # "none"
  THEN LET first == <<prefer>>
           second == IF Includes(first, "furnace") THEN first
                     ELSE Append(first, "furnace")
       IN IF isFood /\ ~Includes(second, "campfire")
          THEN Append(second, "campfire") ELSE second
  ELSE IF isFood THEN <<"smoker", "furnace", "campfire">>
  ELSE IF isOre THEN <<"blast_furnace", "furnace">>
  ELSE <<"furnace">>

\* cookOrSmeltOnDevice line 1361: Math.max(1, Math.min(count, available))
ToProcess(count, available) ==
  LET least == IF count < available THEN count ELSE available
  IN IF least > 1 THEN least ELSE 1

\* lines 1379-1387: the insertion loop stops at toProcess or when the
\* inventory holds no more of the item
Inserted(count, available) ==
  IF ToProcess(count, available) < available
  THEN ToProcess(count, available) ELSE available

\* line 1430: ok: outputs >= outputsTarget
DeviceOk(outputs, outputsTarget) == outputs >= outputsTarget

\* One run of cookOrSmeltOnDevice (lines 1354-1434) on a device. present: a
\* block of that kind is within 16 blocks; fuelled: the device holds fuel or
\* the inventory holds a fuel item; available: units of the input in the
\* inventory; outputs: what takeOutput collected before the loop ended (at
\* most what was inserted).
CookOrSmeltOnDevice(dev, count, present, fuelled, available, outputs) ==
  IF ~present
  THEN [dev |-> dev, threw |-> TRUE, ok |-> FALSE, inserted |-> 0, outputs |-> 0]
  ELSE IF ~fuelled
  THEN [dev |-> dev, threw |-> FALSE, ok |-> FALSE, inserted |-> 0, outputs |-> 0]
  ELSE [dev |-> dev, threw |-> FALSE,
        ok |-> DeviceOk(outputs, Inserted(count, available)),
        inserted |-> Inserted(count, available), outputs |-> outputs]

\* cookOnCampfire line 1465: timedOut, read after the loop of line 1453 was
\* left, i.e. `elapsed` ms after start with elapsed >= maxMs
CampfireTimedOut(elapsed) == elapsed >= CampfireMaxMs

\* One run of cookOnCampfire (lines 1436-1467). present: a campfire is
\* within 16 blocks; available: units of the input in the inventory; cooked:
\* units the campfire cooked and dropped; extra: ms spent after the 45 s wait.
CookOnCampfire(present, available, cooked, extra) ==
  IF ~present \/ available = 0
  THEN [dev |-> "campfire", threw |-> TRUE, ok |-> FALSE, inserted |-> 0, outputs |-> 0]
  ELSE [dev |-> "campfire", threw |-> FALSE,
        ok |-> ~CampfireTimedOut(CampfireMaxMs + extra),
        inserted |-> 1, outputs |-> cooked]

\* what the smeltItem actions leave alone
SmeltFrame ==
  UNCHANGED <<bots, guardVars, statusVars, suspendVars, navVars, craftVars,
              defenseVars, regVars, otherVars>>

\* smeltItem lines 1472-1495: read the parameters, build the chain
SmeltStart(prefer, isFood, isOre, count) ==
  /\ smelt.pc = "idle"
  /\ smelt' = [IdleSmelt EXCEPT !.pc = "loop", !.count = count, !.isFood = isFood,
                                !.prefer = prefer,
                                !.sequence = SmeltSequence(prefer, isFood, isOre)]
  /\ SmeltFrame

\* One pass of the device loop (lines 1496-1512) with the run r of the next
\* device, and the return after the last device (line 1513).
AfterTry(s, r) ==
  LET attempts == Append(s.attempts, r)
  IN IF ~r.threw /\ r.ok
     THEN [s EXCEPT !.pc = "done", !.attempts = attempts, !.ok = TRUE]
     ELSE IF Len(attempts) = Len(s.sequence)
     THEN [s EXCEPT !.pc = "done", !.attempts = attempts, !.ok = FALSE,
                    !.error = "no_device_available"]
     ELSE [s EXCEPT !.attempts = attempts]

\* the device the loop tries next
NextDevice(s) == s.sequence[Len(s.attempts) + 1]

\* the next device is a furnace, smoker or blast furnace
SmeltOnDevice(present, fuelled, available, outputs) ==
  /\ smelt.pc = "loop"
  /\ NextDevice(smelt) # "campfire"
  /\ outputs <= Inserted(smelt.count, available)
  /\ (~present \/ ~fuelled) => (available = 0 /\ outputs = 0)
  /\ smelt' = AfterTry(smelt, CookOrSmeltOnDevice(NextDevice(smelt), smelt.count,
                                                  present, fuelled, available, outputs))
  /\ SmeltFrame

\* the next device is the campfire
SmeltOnCampfire(present, available, cooked, extra) ==
  /\ smelt.pc = "loop"
  /\ NextDevice(smelt) = "campfire"
  /\ (~present \/ available = 0) => (cooked = 0 /\ extra = 0)
  /\ smelt' = AfterTry(smelt, CookOnCampfire(present, available, cooked, extra))
  /\ SmeltFrame

SmeltInit ==
  /\ bots = <<"A">>
  /\ task = [b \in Bots |-> IdleTask]
  /\ inv = [c \in Calls |-> IdleInv]
  /\ slots = [b \in Bots |-> NullStatus]
  /\ evCount = 0
  /\ call = [c \in Calls |-> IdleCall]
  /\ out = NoOut
  /\ lastRead = NoStatus
  /\ SuspendIdle
  /\ RestIdle

SmeltNext ==
  \/ \E prefer \in Prefers, isFood \in BOOLEAN, isOre \in BOOLEAN, count \in 1..MaxSmelt :
        SmeltStart(prefer, isFood, isOre, count)
  \/ \E present \in BOOLEAN, fuelled \in BOOLEAN,
        available \in 0..MaxSmelt, outputs \in 0..MaxSmelt :
        SmeltOnDevice(present, fuelled, available, outputs)
  \/ \E present \in BOOLEAN, available \in 0..1, cooked \in 0..1, extra \in {0, 5000} :
        SmeltOnCampfire(present, available, cooked, extra)

SpecSmelt == SmeltInit /\ [][SmeltNext]_vars

(***************************************************************************)
(* Claims about smeltItem                                                  *)
(***************************************************************************)
\* the devices attempted, in order
AttemptedDevices == [i \in 1..Len(smelt.attempts) |-> smelt.attempts[i].dev]

\* attempt i yielded output
Yielded(i) == smelt.attempts[i].outputs > 0

\* C15: a finished smeltItem call for a food item with no preferDevice has
\* attempted a prefix of smoker, furnace, campfire; a device that yielded
\* output is the last one attempted and the call returned ok=true; ok=true is
\* returned only for a device that yielded output; and ok=false comes with
\* all three devices attempted.
C15_FoodFallbackChain ==
  (smelt.pc = "done" /\ smelt.isFood /\ smelt.prefer = "none") =>
    /\ AttemptedDevices =
         SubSeq(<<"smoker", "furnace", "campfire">>, 1, Len(smelt.attempts))
    /\ \A i \in 1..Len(smelt.attempts) :
         Yielded(i) => (smelt.ok /\ i = Len(smelt.attempts))
    /\ smelt.ok => Yielded(Len(smelt.attempts))
    /\ ~smelt.ok => AttemptedDevices = <<"smoker", "furnace", "campfire">>

\* C16: smeltItem returns ok=true only for a device that yielded at least
\* one output unit (never for a device with nothing inserted and nothing
\* collected), and a furnace, smoker or blast furnace that yielded some of
\* the requested outputs is the device the call reports as successful.
C16_SuccessMeansOutput ==
  smelt.pc = "done" =>
    /\ smelt.ok => smelt.attempts[Len(smelt.attempts)].outputs >= 1
    /\ \A i \in 1..Len(smelt.attempts) :
         (smelt.attempts[i].dev # "campfire" /\ smelt.attempts[i].outputs >= 1) =>
           (smelt.ok /\ i = Len(smelt.attempts))

(***************************************************************************)
(* Auto-shield: the projectile scan and the entityHurt handler             *)
(***************************************************************************)
\* the scan's rate limit, line 589
ShieldGapMs == 600

\* the period of the scan's setInterval, line 603
ScanIntervalMs == 400

\* resolution of the clock the auto-shield is followed with, in ms
ShieldStepMs == 200

\* Date.now() when the bot is created: ms since 1970, far above the rate
\* limit, so that the unset __shieldLastRaised (read as 0) never holds back
\* the first scan
BootMs == 1000

\* the last time the auto-shield is followed to
ShieldEnd == BootMs + MaxShieldSteps * ShieldStepMs

\* line 589: `if (now - last < 600) return`
RateLimited(t, last) == t - last < ShieldGapMs

\* raiseShieldFor lines 400-419 is entered: it has no rate limit of its own
\* and does not touch __shieldLastRaised
RaiseShieldFor(sh, by) ==
  [sh EXCEPT !.calls = @ + 1, !.lastCallAt = now, !.lastBy = by]

ShieldFrame ==
  UNCHANGED <<bots, guardVars, suspendVars, dist, nav, craftVars, smeltVars, fight,
              regVars, otherVars>>

\* one tick of the scan interval, lines 583-603: nothing when auto-shield is
\* disabled or a scan raised the shield less than 600 ms ago; otherwise a
\* projectile within 6 blocks records the time and raises the shield
ShieldScan(near) ==
  /\ now - shield.lastScanAt >= ScanIntervalMs
  /\ LET sh == [shield EXCEPT !.lastScanAt = now]
     IN shield' =
          IF ~sh.enabled \/ RateLimited(now, sh.lastRaised) \/ ~near
          THEN sh
          ELSE RaiseShieldFor([sh EXCEPT !.lastRaised = now], "scan")
  /\ UNCHANGED <<now, slots, evCount, call>>
  /\ NoOutput
  /\ ShieldFrame

\* the entityHurt handler, lines 457-486: the one-shot slots are written as
\* in EntityHurt, then (lines 481-484) the shield is raised when auto-shield
\* is enabled, with no look at __shieldLastRaised. The retaliation the handler
\* starts at lines 466-470 runs on its own; RetaliateStart is its beginning.
ShieldHurt(b, attacker) ==
  /\ InRegistry(b)
  /\ evCount < MaxEvents
  /\ evCount' = evCount + 1
  /\ slots' = [slots EXCEPT ![b]["lastDamage"] = evCount + 1,
                            ![b]["lastDefense"] =
                               IF SelfDefenseEnabled /\ attacker THEN evCount + 1 ELSE @]
  /\ shield' = IF shield.enabled THEN RaiseShieldFor(shield, "hurt") ELSE shield
  /\ UNCHANGED <<now, call>>
  /\ NoOutput
  /\ ShieldFrame

\* the autoShield tool, lines 766-772
AutoShield(enable) ==
  /\ shield.enabled # enable
  /\ shield' = [shield EXCEPT !.enabled = enable]
  /\ UNCHANGED <<now, slots, evCount, call>>
  /\ NoOutput
  /\ ShieldFrame

\* time passes
ShieldTick ==
  /\ now < ShieldEnd
  /\ now' = now + ShieldStepMs
  /\ UNCHANGED <<shield, slots, evCount, call>>
  /\ NoOutput
  /\ ShieldFrame

ShieldInit ==
  /\ bots = <<"A">>
  /\ task = [b \in Bots |-> IdleTask]
  /\ inv = [c \in Calls |-> IdleInv]
  /\ slots = [b \in Bots |-> NullStatus]
  /\ evCount = 0
  /\ call = [c \in Calls |-> IdleCall]
  /\ out = NoOut
  /\ lastRead = NoStatus
  /\ SuspendIdle
  /\ now = BootMs
  /\ dist = MaxDist
  /\ nav = IdleNav
  /\ craft = IdleCraft
  /\ smelt = IdleSmelt
  /\ shield = [IdleShield EXCEPT !.lastScanAt = BootMs]
  /\ fight = IdleFight
  /\ conn = IdleConn
  /\ OtherIdle

ShieldNext ==
  \/ \E near \in BOOLEAN : ShieldScan(near)
  \/ \E attacker \in BOOLEAN : ShieldHurt("A", attacker)
  \/ \E enable \in BOOLEAN : AutoShield(enable)
  \/ ShieldTick

SpecShield == ShieldInit /\ [][ShieldNext]_vars

(***************************************************************************)
(* Claims about the auto-shield                                            *)
(***************************************************************************)
\* C17: a raiseShieldFor call is never followed by another one less than
\* 600 ms later, whichever of the two triggers (scan tick, damage event)
\* made either call.
C17_OneRaisePerGap ==
  [][shield'.calls > shield.calls =>
       (shield.calls = 0 \/ now - shield.lastCallAt >= ShieldGapMs)]_vars

\* two raises made by scan ticks are at least 600 ms apart
ScanRaisesApart ==
  [][(shield'.calls > shield.calls /\ shield'.lastBy = "scan"
      /\ shield.lastBy = "scan") =>
       now - shield.lastCallAt >= ShieldGapMs]_vars

(***************************************************************************)
(* Weapon selection: retaliation, attackSomeone, hunt                      *)
(***************************************************************************)
\* equipBestMeleeWeapon's preference list, lines 121-124
Preference ==
  <<"netherite_sword", "diamond_sword", "iron_sword", "stone_sword",
    "golden_sword", "wooden_sword",
    "netherite_axe", "diamond_axe", "iron_axe", "stone_axe",
    "golden_axe", "wooden_axe">>

MeleeItems == {Preference[i] : i \in 1..Len(Preference)}

\* the sets of at most n melee weapons
RECURSIVE StocksUpTo(_)
StocksUpTo(n) ==
  IF n = 0 THEN {{}}
  ELSE LET smaller == StocksUpTo(n - 1)
       IN smaller \cup {m \cup {x} : m \in smaller, x \in MeleeItems}

\* the melee weapons an inventory can hold
MeleeStocks == StocksUpTo(MaxMelee)

\* the threshold of the ranged attack: `rangedMin = 8` line 2111, the literal
\* 8 of lines 469 and 854
RangedMin == 8

\* distances to the target, in blocks: next to it, at the threshold, beyond
FightDists == {0, RangedMin, RangedMin + 1}

\* the three places that select a weapon
FightFns == {"entityHurt", "attackSomeone", "hunt"}

\* equipBowIfAvailable lines 114-118: true, with the bow in hand, when the
\* inventory holds a bow and an arrow
BowAvailable(f) == f.hasBow /\ f.hasArrows

\* lines 469, 854, 2113: `!(await equipBowIfAvailable(bot)) || dist <= 8`
NeedsMelee(bowOk, d) == ~bowOk \/ d <= RangedMin

\* equipBestMeleeWeapon lines 125-129: the loop over the preference list from
\* index i on; "none" when no item of the list is in the inventory
RECURSIVE BestMeleeFrom(_, _)
BestMeleeFrom(i, melee) ==
  IF i > Len(Preference) THEN "none"
  ELSE IF Preference[i] \in melee THEN Preference[i]
  ELSE BestMeleeFrom(i + 1, melee)

FightFrame ==
  UNCHANGED <<bots, guardVars, suspendVars, navVars, craftVars, smeltVars, regVars,
              otherVars>>

\* a selection starts: the distance to the target is read; the inventory and
\* the hand are as they are
FightBegin(f, fn, d) ==
  [f EXCEPT !.pc = "bow", !.fn = fn, !.dist = d, !.bowOk = FALSE]

\* the entityHurt handler, lines 457-486, for an event that names an
\* attacker: the slots are written, the retaliation is started (it reads the
\* distance at line 468 and goes on in EquipBow), the shield is raised
RetaliateStart(b, d) ==
  /\ fight.pc = "idle"
  /\ InRegistry(b)
  /\ SelfDefenseEnabled
  /\ evCount < MaxEvents
  /\ evCount' = evCount + 1
  /\ slots' = [slots EXCEPT ![b]["lastDamage"] = evCount + 1,
                            ![b]["lastDefense"] = evCount + 1]
  /\ shield' = IF shield.enabled THEN RaiseShieldFor(shield, "hurt") ELSE shield
  /\ fight' = FightBegin(fight, "entityHurt", d)
  /\ UNCHANGED call
  /\ NoOutput
  /\ FightFrame

\* attackSomeone line 2112 and hunt line 853: the distance to the target is
\* read and the selection begins
SelectStart(fn, d) ==
  /\ fight.pc = "idle"
  /\ fn \in {"attackSomeone", "hunt"}
  /\ fight' = FightBegin(fight, fn, d)
  /\ UNCHANGED <<slots, evCount, call, shield>>
  /\ NoOutput
  /\ FightFrame

\* `await equipBowIfAvailable(bot)` and the test around it: the bow is put in
\* the hand when it is available, whatever the distance
EquipBow ==
  /\ fight.pc = "bow"
  /\ LET bowOk == BowAvailable(fight)
     IN fight' = [fight EXCEPT
                    !.bowOk = bowOk,
                    !.held = IF bowOk THEN "bow" ELSE @,
                    !.pc = IF NeedsMelee(bowOk, fight.dist) THEN "melee" ELSE "done"]
  /\ UNCHANGED <<slots, evCount, call, shield>>
  /\ NoOutput
  /\ FightFrame

\* `await equipBestMeleeWeapon(bot)`: the first item of the preference list
\* that is in the inventory is put in the hand; nothing when there is none
EquipMelee ==
  /\ fight.pc = "melee"
  /\ LET best == BestMeleeFrom(1, fight.melee)
     IN fight' = [fight EXCEPT !.held = IF best # "none" THEN best ELSE @,
                               !.pc = "done"]
  /\ UNCHANGED <<slots, evCount, call, shield>>
  /\ NoOutput
  /\ FightFrame

\* the fight goes on with the weapon in hand (pvp.attack) and ends
FightEnd ==
  /\ fight.pc = "done"
  /\ fight' = [fight EXCEPT !.pc = "idle", !.fn = "none", !.dist = 0, !.bowOk = FALSE]
  /\ UNCHANGED <<slots, evCount, call, shield>>
  /\ NoOutput
  /\ FightFrame

\* the bot has some inventory: a bow or not, arrows or not, some melee
\* weapons; its hand holds no weapon
FightInit ==
  /\ bots = <<"A">>
  /\ task = [b \in Bots |-> IdleTask]
  /\ inv = [c \in Calls |-> IdleInv]
  /\ slots = [b \in Bots |-> NullStatus]
  /\ evCount = 0
  /\ call = [c \in Calls |-> IdleCall]
  /\ out = NoOut
  /\ lastRead = NoStatus
  /\ SuspendIdle
  /\ NavIdle
  /\ craft = IdleCraft
  /\ smelt = IdleSmelt
  /\ shield = IdleShield
  /\ \E melee \in MeleeStocks, hasBow \in BOOLEAN, hasArrows \in BOOLEAN :
       fight = [IdleFight EXCEPT !.hasBow = hasBow, !.hasArrows = hasArrows,
                                 !.melee = melee]
  /\ conn = IdleConn
  /\ OtherIdle

FightNext ==
  \/ \E d \in FightDists : RetaliateStart("A", d)
  \/ \E fn \in FightFns, d \in FightDists : SelectStart(fn, d)
  \/ EquipBow
  \/ EquipMelee
  \/ FightEnd

SpecFight == FightInit /\ [][FightNext]_vars

(***************************************************************************)
(* Claims about the weapon selection                                       *)
(***************************************************************************)
\* the bow case of the rule: a bow and arrows in the inventory and the target
\* more than 8 away
BowCase == fight.hasBow /\ fight.hasArrows /\ fight.dist > RangedMin

\* the first item of the melee order that is in the inventory
FirstPresent ==
  Preference[CHOOSE i \in 1..Len(Preference) :
               /\ Preference[i] \in fight.melee
               /\ \A j \in 1..(i - 1) : Preference[j] \notin fight.melee]

\* C18: when a weapon selection (retaliation, attackSomeone, hunt) is over,
\* the hand holds the bow exactly when the inventory holds a bow and arrows
\* and the target is more than 8 away; otherwise it holds the first item of
\* the melee order that is in the inventory.
C18_WeaponRule ==
  fight.pc = "done" =>
    /\ (fight.held = "bow") <=> BowCase
    /\ (~BowCase /\ fight.melee # {}) => fight.held = FirstPresent

\* the rule holds whenever the inventory holds a melee weapon
WeaponRuleWithMelee ==
  (fight.pc = "done" /\ fight.melee # {}) =>
    /\ (fight.held = "bow") <=> BowCase
    /\ ~BowCase => fight.held = FirstPresent

(***************************************************************************)
(* The bot registry: joinGame, leaveGame, the connection's events          *)
(***************************************************************************)
Sessions == 1..MaxSessions

\* usernames a registry call can carry: none, a bot's, a name of no bot
RegNames == Usernames \cup Bots

\* the bot objects whose connection is open or being opened
Open(s) == conn.sess[s].pc \in {"connecting", "online", "closing"}

\* the bot object createBot returns next
NextSession == CHOOSE s \in Sessions :
                 /\ conn.sess[s].pc = "free"
                 /\ \A t \in Sessions : conn.sess[t].pc = "free" => s <= t

\* `bots.delete(u)` on the insertion-ordered keys
Without(seq, u) == LET Keep(x) == x # u IN SelectSeq(seq, Keep)

\* the connection of bot object s is over: its end event was emitted, or
\* leaveGame ended the bot after its login
Over(s) ==
  \/ conn.sess[s].pc = "ended"
  \/ conn.sess[s].left /\ conn.sess[s].established

\* u had a connection and every connection of u is over
Gone(u) ==
  /\ \E s \in Sessions : conn.sess[s].pc # "free" /\ conn.sess[s].username = u
  /\ \A s \in Sessions :
       (conn.sess[s].pc # "free" /\ conn.sess[s].username = u) => Over(s)

\* the outcome of a registry call
RegCall(op, u, result) ==
  [op |-> op, username |-> u, result |-> result, gone |-> u \in Bots /\ Gone(u)]

EndRemovesNever(owner, u, s) == FALSE

EndRemovesAnyway(owner, u, s) == TRUE

\* end handler line 610: `bots.get(username) === bot`
EndRemoves(owner, u, s) == owner[u] = s

\* what the registry actions leave alone
RegFrame ==
  UNCHANGED <<guardVars, statusVars, suspendVars, navVars, craftVars, smeltVars,
              defenseVars, otherVars>>

\* joinGame lines 421-613 up to the login wait: a username of the registry
\* is rejected (line 425); otherwise the bot object is created, its handlers
\* are installed and it is registered (line 613) before the wait begins
JoinGame(u) ==
  /\ \E s \in Sessions : conn.sess[s].pc = "free"
  /\ IF InRegistry(u)
     THEN /\ conn' = [conn EXCEPT !.last = RegCall("joinGame", u, "already_exists")]
          /\ UNCHANGED bots
     ELSE LET s == NextSession
          IN /\ conn' = [conn EXCEPT
                           !.sess[s] = [pc |-> "connecting", username |-> u,
                                        join |-> "waiting", established |-> FALSE,
                                        left |-> FALSE],
                           !.owner[u] = s,
                           !.last = RegCall("joinGame", u, "accepted")]
             /\ bots' = Append(bots, u)
  /\ RegFrame

\* the login event, lines 615, 624: the wait ends and joinGame returns ok
Login(s) ==
  /\ conn.sess[s].pc = "connecting"
  /\ conn' = [conn EXCEPT
                !.sess[s].pc = "online",
                !.sess[s].established = TRUE,
                !.sess[s].join = IF @ = "waiting" THEN "resolved" ELSE @,
                !.last = NoRegCall]
  /\ UNCHANGED bots
  /\ RegFrame

\* the error event, lines 616, 625: a pending joinGame is rejected; nothing
\* is removed from the registry. A fatal error closes the connection and the
\* end event follows.
Error(s, fatal) ==
  /\ conn.sess[s].pc \in {"connecting", "online"}
  /\ conn.sess[s].join = "waiting" \/ fatal
  /\ conn' = [conn EXCEPT
                !.sess[s].pc = IF fatal THEN "closing" ELSE @,
                !.sess[s].join = IF @ = "waiting" THEN "rejected" ELSE @,
                !.last = NoRegCall]
  /\ UNCHANGED bots
  /\ RegFrame

\* the kicked event, lines 617, 627: a pending joinGame is rejected; nothing
\* is removed from the registry; the end event follows
Kicked(s) ==
  /\ conn.sess[s].pc \in {"connecting", "online"}
  /\ conn' = [conn EXCEPT
                !.sess[s].pc = "closing",
                !.sess[s].join = IF @ = "waiting" THEN "rejected" ELSE @,
                !.last = NoRegCall]
  /\ UNCHANGED bots
  /\ RegFrame

\* the end handler, lines 607-611: the connection is over, whatever ended
\* it; the entry is deleted when it still maps to this bot object. Of a bot
\* object whose connection is over only the username and whether leaveGame
\* ended it are kept.
End(s) ==
  /\ Open(s)
  /\ LET u == conn.sess[s].username
         removes == EndRemoves(conn.owner, u, s)
     IN /\ conn' = [conn EXCEPT
                      !.sess[s] = [FreeSession EXCEPT !.pc = "ended", !.username = u,
                                                      !.left = conn.sess[s].left],
                      !.owner[u] = IF removes THEN 0 ELSE @,
                      !.last = NoRegCall]
        /\ bots' = IF removes THEN Without(bots, u) ELSE bots
  /\ RegFrame

\* leaveGame lines 643-646: getBotOrThrow, bot.end(), bots.delete(bot.username);
\* the end event of the connection comes later. mineflayer sets bot.username
\* from its client, at the login at the latest: `named` tells whether it is
\* set already when the bot has not logged in.
LeaveGame(u, named) ==
  /\ LET b == GetBotOrThrow(u)
     IN IF b = "none"
        THEN /\ named
             /\ conn' = [conn EXCEPT
                           !.last = RegCall("leaveGame", u,
                                            IF u # "" THEN "not_found" ELSE "no_active")]
             /\ UNCHANGED bots
        ELSE LET s == conn.owner[b]
             IN /\ conn.sess[s].established => named
                /\ conn' = [conn EXCEPT
                              !.sess[s].pc = "closing",
                              !.sess[s].left = TRUE,
                              !.owner[b] = IF named THEN 0 ELSE @,
                              !.last = RegCall("leaveGame", u, "ok")]
                /\ bots' = IF named THEN Without(bots, b) ELSE bots
  /\ RegFrame

\* leaveGame with disconnectAll, lines 636-641: every bot of the registry is
\* ended and deleted
LeaveAll ==
  /\ Len(bots) > 0
  /\ conn' = [conn EXCEPT
                !.sess = [s \in Sessions |->
                            IF conn.sess[s].pc # "free"
                               /\ conn.owner[conn.sess[s].username] = s
                            THEN [conn.sess[s] EXCEPT !.pc = "closing", !.left = TRUE]
                            ELSE conn.sess[s]],
                !.owner = [u \in Bots |-> 0],
                !.last = RegCall("leaveGame", "", "all")]
  /\ bots' = << >>
  /\ RegFrame

\* a tool that begins with getBotOrThrow(username), lines 77-83
ToolCall(u) ==
  /\ \E s \in Sessions : conn.sess[s].pc # "free"
  /\ conn' = [conn EXCEPT
                !.last = RegCall("tool", u,
                                 IF GetBotOrThrow(u) # "none" THEN "ok"
                                 ELSE IF u # "" THEN "not_found" ELSE "no_active")]
  /\ UNCHANGED bots
  /\ RegFrame

RegInit ==
  /\ bots = << >>
  /\ task = [b \in Bots |-> IdleTask]
  /\ inv = [c \in Calls |-> IdleInv]
  /\ slots = [b \in Bots |-> NullStatus]
  /\ evCount = 0
  /\ call = [c \in Calls |-> IdleCall]
  /\ out = NoOut
  /\ lastRead = NoStatus
  /\ SuspendIdle
  /\ RestIdle

RegNext ==
  \/ \E u \in Bots : JoinGame(u)
  \/ \E s \in Sessions : Login(s)
  \/ \E s \in Sessions : Kicked(s)
  \/ \E s \in Sessions, fatal \in BOOLEAN : Error(s, fatal)
  \/ \E s \in Sessions : End(s)
  \/ \E u \in RegNames, named \in BOOLEAN : LeaveGame(u, named)
  \/ LeaveAll
  \/ \E u \in RegNames : ToolCall(u)

SpecRegistry == RegInit /\ [][RegNext]_vars

(***************************************************************************)
(* Claims about the registry                                               *)
(***************************************************************************)
\* C19: a bot whose connection is over (end event after a kick, a network
\* failure or anything else; leaveGame, with or without disconnectAll, on a
\* bot that had logged in) has no entry in the registry; a tool call naming a username
\* all of whose connections are gone fails with 'not found', and a joinGame
\* with such a username is accepted.
C19_EndedIsRemoved ==
  /\ \A s \in Sessions : Over(s) => conn.owner[conn.sess[s].username] # s
  /\ \A u \in Bots : InRegistry(u) <=> conn.owner[u] # 0
  /\ (conn.last.op = "tool" /\ conn.last.gone) => conn.last.result = "not_found"
  /\ (conn.last.op = "joinGame" /\ conn.last.gone) => conn.last.result = "accepted"

\* a username is joined again after its connection ended with a kick or a
\* failure, and a tool call was refused for a username whose bot left
C19_Witness ==
  /\ conn.last.op = "joinGame" /\ conn.last.gone /\ conn.last.result = "accepted"
  /\ \E s \in Sessions : conn.sess[s].pc = "ended" /\ ~conn.sess[s].left
                         /\ conn.sess[s].username = conn.last.username

\* C20: the registry maps a username only to a bot whose login succeeded;
\* a joinGame for a username with no such bot is not rejected with
\* 'already exists'.
C20_OnlyEstablished ==
  /\ \A u \in Bots :
       conn.owner[u] # 0 => conn.sess[conn.owner[u]].established
  /\ [][\A u \in Bots :
          (conn'.last.op = "joinGame" /\ conn'.last.username = u
           /\ ~\E s \in Sessions : Open(s) /\ conn.sess[s].username = u
                                   /\ conn.sess[s].established) =>
            conn'.last.result # "already_exists"]_vars

(***************************************************************************)
(* Operations raced against a timer: craftWithTimeout,                     *)
(* collectBlockWithTimeout, digBlockWithTimeout                            *)
(***************************************************************************)
RaceFns == {"craftWithTimeout", "collectBlockWithTimeout", "digBlockWithTimeout"}

\* craftWithTimeout line 1169: the raced operation itself pushes the
\* suspension flag and pops it in a finally around bot.craft
PushesInside(fn) == fn = "craftWithTimeout"

\* mineResource line 938: the caller pushes before collectBlockWithTimeout and
\* pops in a finally around it
PushesAround(fn) == fn = "collectBlockWithTimeout"

\* what the helper does to the operation when the timer wins: cancelTask in
\* the catch of collectBlockWithTimeout (line 192), stopDigging in the timer
\* of digBlockWithTimeout (line 207); craftWithTimeout aborts a controller no
\* one listens to (lines 1164-1165) and calls nothing on the bot
CancelsOnTimeout(fn) == fn \in {"collectBlockWithTimeout", "digBlockWithTimeout"}

\* the catch of collectBlockWithTimeout (lines 191-196) also runs, and calls
\* cancelTask, when the operation itself failed
CancelsOnError(fn) == fn = "collectBlockWithTimeout"

\* Promise.race subscribes to the operation's promise (lines 187, 204, 1168),
\* and lines 194 and 213 attach a catch of their own: a rejection of the
\* operation always has a handler
RejectionHandled(fn) == fn \in RaceFns

\* popSuspendAutoEat applied to the two suspension variables
AfterPop(popped) ==
  IF popped
  THEN /\ suspendCount' = PopCount(suspendCount)
       /\ suspendAutoEat' = PopFlag(PopCount(suspendCount))
  ELSE UNCHANGED <<suspendCount, suspendAutoEat>>

RaceFrame ==
  UNCHANGED <<bots, guardVars, statusVars, eq, autoEat, ops, opi, navVars,
              craftVars, smeltVars, defenseVars, regVars, eat, raise, refuel, chain,
              lateVars>>

\* a helper is called: the operation is started at the collaborator and the
\* timer is armed. What the call before left running stays behind: an
\* operation of craftWithTimeout that still holds its push, a timer of
\* digBlockWithTimeout that will still call stopDigging.
RaceStart(fn) ==
  /\ race.pc \in {"idle", "returned"}
  /\ race.calls < MaxRaces
  /\ race' = [race EXCEPT
                !.pc = "racing", !.fn = fn, !.op = "running", !.timer = "armed",
                !.result = "none", !.cancelled = FALSE,
                !.calls = @ + 1,
                !.leaked = IF race.op = "running" /\ PushesInside(race.fn)
                           THEN @ + 1 ELSE @,
                !.pendingStops = IF race.timer = "left"
                                    /\ race.fn = "digBlockWithTimeout"
                                 THEN @ + 1 ELSE @]
  /\ IF PushesInside(fn) \/ PushesAround(fn)
     THEN suspendCount' = PushCount(suspendCount) /\ suspendAutoEat' = TRUE
     ELSE UNCHANGED <<suspendCount, suspendAutoEat>>
  /\ RaceFrame

\* the operation settles at the collaborator. While the race is on, it wins:
\* the helper returns or throws, its timer stays armed (no helper clears the
\* timer that rejects). After the race it is late: the result stays as it
\* is; the finally of line 1169 pops.
OpSettles(ok) ==
  /\ race.op = "running"
  /\ IF race.pc = "racing"
     THEN /\ race' = [race EXCEPT
                        !.pc = "returned",
                        !.op = IF ok THEN "resolved" ELSE "rejected",
                        !.timer = "left",
                        !.result = IF ok THEN "ok" ELSE "error",
                        !.cancelled = ~ok /\ CancelsOnError(race.fn),
                        !.unhandled = @ \/ (~ok /\ ~RejectionHandled(race.fn))]
          /\ AfterPop(PushesInside(race.fn) \/ PushesAround(race.fn))
     ELSE /\ race' = [race EXCEPT
                        !.op = IF ok THEN "resolved" ELSE "rejected",
                        !.unhandled = @ \/ (~ok /\ ~RejectionHandled(race.fn))]
          /\ AfterPop(PushesInside(race.fn))
  /\ RaceFrame

\* the timer of the call in hand fires. While the race is on, it wins: the
\* helper throws its timeout error, after cancelling the operation where the
\* helper does that; the caller's finally of line 938 pops. After the race
\* the rejection goes nowhere, but the timer of digBlockWithTimeout still
\* calls stopDigging.
TimerFires ==
  /\ race.timer \in {"armed", "left"}
  /\ IF race.pc = "racing"
     THEN /\ race' = [race EXCEPT
                        !.pc = "returned", !.timer = "fired",
                        !.result = "timeout",
                        !.cancelled = CancelsOnTimeout(race.fn)]
          /\ AfterPop(PushesAround(race.fn))
     ELSE /\ race' = [race EXCEPT
                        !.timer = "fired",
                        !.strayStop = @ \/ race.fn = "digBlockWithTimeout"]
          /\ UNCHANGED <<suspendCount, suspendAutoEat>>
  /\ RaceFrame

\* an operation of craftWithTimeout left behind by an earlier call settles:
\* its finally pops
LeakedSettles ==
  /\ race.leaked > 0
  /\ race' = [race EXCEPT !.leaked = @ - 1]
  /\ AfterPop(TRUE)
  /\ RaceFrame

\* a timer left behind by an earlier digBlockWithTimeout fires: stopDigging
\* is called, whatever the bot is digging now
LeftTimerFires ==
  /\ race.pendingStops > 0
  /\ race' = [race EXCEPT !.pendingStops = @ - 1, !.strayStop = TRUE]
  /\ UNCHANGED <<suspendCount, suspendAutoEat>>
  /\ RaceFrame

RaceInit == StatusInit

RaceNext ==
  \/ \E fn \in RaceFns : RaceStart(fn)
  \/ \E ok \in BOOLEAN : OpSettles(ok)
  \/ TimerFires
  \/ LeakedSettles
  \/ LeftTimerFires

SpecRace == RaceInit /\ [][RaceNext]_vars

\* timers fire; nothing makes an operation of the collaborator settle
SpecRaceFair ==
  /\ SpecRace
  /\ WF_vars(TimerFires)
  /\ WF_vars(LeftTimerFires)

(***************************************************************************)
(* Claims about the races                                                  *)
(***************************************************************************)
\* C21: when the timer won the race the operation was cancelled at the
\* collaborator; a completion or failure that arrives after the helper
\* returned changes no result and surfaces no unhandled rejection.
C21_TimeoutCancels ==
  /\ []((race.pc = "returned" /\ race.result = "timeout") => race.cancelled)
  /\ [][(race.pc = "returned" /\ race'.pc = "returned") =>
          race'.result = race.result]_vars
  /\ [](~race.unhandled)

\* late settlements change no result and are always handled
LateIsDiscarded ==
  /\ [][(race.pc = "returned" /\ race'.pc = "returned") =>
          race'.result = race.result]_vars
  /\ [](~race.unhandled)

\* the pushes whose wrapped operation is still in flight
PushesInFlight ==
  race.leaked
  + (IF race.op = "running" /\ PushesInside(race.fn) THEN 1 ELSE 0)
  + (IF race.pc = "racing" /\ PushesAround(race.fn) THEN 1 ELSE 0)

\* C22: the suspend count is the number of pushes whose wrapped operation is
\* still in flight (0 when there is none), and once the helper has returned
\* to its action the count eventually returns to 0.
C22_PushesBalanced ==
  /\ [](suspendCount = PushesInFlight)
  /\ (race.pc = "returned") ~> (suspendCount = 0)

\* the count is exact at every moment
CountIsExact == suspendCount = PushesInFlight

(***************************************************************************)
(* The auto-eat poller with its clock                                      *)
(***************************************************************************)
\* warnCooldownMs, line 543
WarnCooldownMs == 30000

\* resolution of the clock the poller is followed with, in ms; the interval
\* of line 578 fires every 2000 ms, so every clock value is a tick time
EatStepMs == 10000

\* Date.now() when the poller starts: ms since 1970, more than the cooldown
\* above the lastWarnAt of 0 the record starts with
EatBoot == WarnCooldownMs + BootMs

EatEndOfTime == EatBoot + MaxEatSteps * EatStepMs

EatBusyNever(a) == FALSE

\* line 553: `if (__autoEatCfg.isEating) return`
EatBusy(a) == a.isEating

\* lines 549-553: the early returns of a tick (enabled is always true)
TickSkips == ~autoEat.hungry \/ suspendAutoEat \/ EatBusy(autoEat)

\* lines 563 and 572: the cooldown test, on the `now` the tick took at
\* line 552
CooldownOver(tickNow, lastWarnAt) == tickNow - lastWarnAt > WarnCooldownMs

\* lines 562-566: a failed eat warns only when no food is left
WarnsAfterFailure(stillHasFood, tickNow, lastWarnAt) ==
  ~stillHasFood /\ CooldownOver(tickNow, lastWarnAt)

\* lines 564-565 and 573-574: lastHungerWarning is set, lastWarnAt becomes the
\* tick's `now`; lastSetAt is the moment this happens
SetWarning(e, tickNow) == [e EXCEPT !.lastWarnAt = tickNow, !.lastSetAt = now]

EatFrame ==
  UNCHANGED <<bots, guardVars, call, suspendCount, suspendAutoEat, eq, ops, opi,
              dist, nav, craftVars, smeltVars, defenseVars, regVars, race, raise, refuel, chain,
              lateVars>>

\* one tick of the interval, lines 546-578, up to its first await: it returns
\* early, or starts an eat when the inventory holds food, or (no food) sets
\* the warning when the cooldown is over
PollTick ==
  /\ IF TickSkips
     THEN /\ eat' = [eat EXCEPT !.last = "skipped", !.due = FALSE, !.warned = FALSE]
          /\ UNCHANGED <<autoEat, slots, evCount>>
     ELSE IF autoEat.hasFood
     THEN /\ autoEat' = [autoEat EXCEPT !.isEating = TRUE]
          /\ eat' = [eat EXCEPT !.lastTriedAt = now, !.tickNow = now,
                                !.inFlight = @ + 1,
                                !.last = "eat_started", !.due = FALSE, !.warned = FALSE]
          /\ UNCHANGED <<slots, evCount>>
     ELSE LET due == CooldownOver(now, eat.lastWarnAt)
              e == [eat EXCEPT !.lastTriedAt = now, !.last = "no_food",
                               !.due = due, !.warned = due]
          IN /\ RaiseWarning(due)
             /\ eat' = IF due THEN SetWarning(e, now) ELSE e
             /\ UNCHANGED autoEat
  /\ UNCHANGED now
  /\ NoOutput
  /\ EatFrame

\* the eat a tick started settles, lines 560-570: a failure runs the catch,
\* with the `now` of the tick that started the eat; the finally clears
\* isEating
PollEatEnd(failed, stillHasFood) ==
  /\ eat.inFlight > 0
  /\ LET due == CooldownOver(eat.tickNow, eat.lastWarnAt)
         warns == failed /\ WarnsAfterFailure(stillHasFood, eat.tickNow, eat.lastWarnAt)
         e == [eat EXCEPT !.inFlight = @ - 1,
                          !.last = IF failed THEN "eat_failed" ELSE "eat_ok",
                          !.due = due, !.warned = warns]
     IN /\ RaiseWarning(warns)
        /\ eat' = IF warns THEN SetWarning(e, eat.tickNow) ELSE e
        /\ autoEat' = IF failed
                      THEN [autoEat EXCEPT !.isEating = FALSE, !.hasFood = stillHasFood]
                      ELSE [isEating |-> FALSE, hungry |-> FALSE,
                            hasFood |-> stillHasFood]
  /\ UNCHANGED now
  /\ NoOutput
  /\ EatFrame

\* the world: food drops below the threshold or is restored, food is picked
\* up or lost
EatWorld(hungry, hasFood) ==
  /\ autoEat' = [autoEat EXCEPT !.hungry = hungry, !.hasFood = hasFood]
  /\ autoEat' # autoEat
  /\ eat' = [eat EXCEPT !.last = "none", !.due = FALSE, !.warned = FALSE]
  /\ UNCHANGED <<now, slots, evCount>>
  /\ NoOutput
  /\ EatFrame

\* time passes
EatClock ==
  /\ now < EatEndOfTime
  /\ now' = now + EatStepMs
  /\ eat' = [eat EXCEPT !.last = "none", !.due = FALSE, !.warned = FALSE]
  /\ UNCHANGED <<autoEat, slots, evCount>>
  /\ NoOutput
  /\ EatFrame

EatInit ==
  /\ bots = <<"A">>
  /\ task = [b \in Bots |-> IdleTask]
  /\ inv = [c \in Calls |-> IdleInv]
  /\ slots = [b \in Bots |-> NullStatus]
  /\ evCount = 0
  /\ call = [c \in Calls |-> IdleCall]
  /\ out = NoOut
  /\ lastRead = NoStatus
  /\ SuspendIdle
  /\ now = EatBoot
  /\ dist = MaxDist
  /\ nav = IdleNav
  /\ craft = IdleCraft
  /\ smelt = IdleSmelt
  /\ shield = IdleShield
  /\ fight = IdleFight
  /\ conn = IdleConn
  /\ race = IdleRace
  /\ eat = IdleEat
  /\ RaiseIdle
  /\ refuel = IdleRefuel
  /\ chain = IdleChain
  /\ LateIdle

EatNext ==
  \/ PollTick
  \/ \E failed \in BOOLEAN, stillHasFood \in BOOLEAN : PollEatEnd(failed, stillHasFood)
  \/ \E hungry \in BOOLEAN, hasFood \in BOOLEAN : EatWorld(hungry, hasFood)
  \/ \E site \in {"equipItem"} : EquipStart(1, site)
  \/ EquipEnd(1)
  \/ EatClock

SpecEat == EatInit /\ [][EatNext]_vars

(***************************************************************************)
(* Claims about the auto-eat poller                                        *)
(***************************************************************************)
\* C23: a tick starts an eat only with food below the threshold, the
\* suspension flag clear and no eat of an earlier tick in flight; at most one
\* eat of the poller is in flight; isEating is false after every eat attempt,
\* successful or not.
C23_OneEatInFlight ==
  /\ [](eat.inFlight <= 1)
  /\ [][eat'.inFlight > eat.inFlight =>
          (autoEat.hungry /\ ~suspendAutoEat /\ eat.inFlight = 0)]_vars
  /\ [][eat'.inFlight < eat.inFlight => ~autoEat'.isEating]_vars

\* an eat is in flight while the bot is hungry and a tick has just skipped
C23_Witness ==
  eat.inFlight = 1 /\ autoEat.hungry /\ ~suspendAutoEat /\ eat.last = "skipped"

\* C25: two moments at which the poller sets lastHungerWarning are more than
\* 30 s apart.
C25_WarningsApart ==
  [][slots'["A"]["lastHungerWarning"] # slots["A"]["lastHungerWarning"] =>
       (eat.lastSetAt = 0 \/ now - eat.lastSetAt > WarnCooldownMs)]_vars

\* two warnings set by ticks that found no food are more than 30 s apart when
\* no eat failed in between
TickWarningsApart ==
  [][(slots'["A"]["lastHungerWarning"] # slots["A"]["lastHungerWarning"]
      /\ eat.lastSetAt = eat.lastWarnAt) =>
       (eat.lastSetAt = 0 \/ now - eat.lastSetAt > WarnCooldownMs)]_vars

\* C26: a tick that triggered with the cooldown over sets lastHungerWarning
\* when the inventory holds no food and when the eat it started failed,
\* whether or not food is still in the inventory.
C26_WarnsOnEveryFailure ==
  (eat.last \in {"no_food", "eat_failed"} /\ eat.due) => eat.warned

(***************************************************************************)
(* Background behaviours next to a guarded action                          *)
(***************************************************************************)
WaitsForTaskWhenBusy(t) == t.running

\* the entityHurt handler (lines 457-486) and the two interval callbacks
\* (lines 546-578, 583-603) call neither getTask nor withTask: whatever the
\* task record holds, they do not wait
WaitsForTask(t) == FALSE

\* a damage event with an attacker, whatever foreground action is running.
\* The clock stands still here: the scan interval, created at the spawn, has
\* its first tick due, and the warning cooldown is over.
BgHurt(b, d) ==
  /\ ~WaitsForTask(task[b])
  /\ RetaliateStart(b, d)

\* a tick of the projectile scan
BgScan(near) ==
  /\ ~WaitsForTask(task["A"])
  /\ ShieldScan(near)

\* a tick of the auto-eat poller
BgPoll ==
  /\ ~WaitsForTask(task["A"])
  /\ PollTick

BackgroundInit ==
  /\ bots = <<"A">>
  /\ task = [b \in Bots |-> IdleTask]
  /\ inv = [c \in Calls |-> IdleInv]
  /\ slots = [b \in Bots |-> NullStatus]
  /\ evCount = 0
  /\ call = [c \in Calls |-> IdleCall]
  /\ out = NoOut
  /\ lastRead = NoStatus
  /\ suspendCount = 0
  /\ suspendAutoEat = FALSE
  /\ eq = [p \in Equips |-> IdleEquip]
  /\ autoEat \in {[isEating |-> FALSE, hungry |-> TRUE, hasFood |-> f] : f \in BOOLEAN}
  /\ ops = << >>
  /\ opi = 0
  /\ now = EatBoot
  /\ dist = MaxDist
  /\ nav = IdleNav
  /\ craft = IdleCraft
  /\ smelt = IdleSmelt
  /\ shield = IdleShield
  /\ fight = IdleFight
  /\ conn = IdleConn
  /\ race = IdleRace
  /\ eat = IdleEat
  /\ RaiseIdle
  /\ refuel = IdleRefuel
  /\ chain = IdleChain
  /\ LateIdle

BackgroundNext ==
  \/ InvokeGuarded(1, "A")
  \/ \E threw \in BOOLEAN : BodyEnd(1, threw)
  \/ Collect(1)
  \/ \E d \in {0} : BgHurt("A", d)
  \/ EquipBow
  \/ EquipMelee
  \/ FightEnd
  \/ \E near \in BOOLEAN : BgScan(near)
  \/ BgPoll
  \/ \E failed \in BOOLEAN, stillHasFood \in BOOLEAN : PollEatEnd(failed, stillHasFood)

SpecBackground == BackgroundInit /\ [][BackgroundNext]_vars

(***************************************************************************)
(* Claims about the background behaviours                                  *)
(***************************************************************************)
\* a background behaviour took a step
BackgroundStep ==
  \/ shield' # shield
  \/ fight' # fight
  \/ eat' # eat
  \/ autoEat' # autoEat
  \/ evCount' # evCount

\* C24: while a guarded action holds the guard on bot A, a damage event, a
\* scan tick and an auto-eat tick are taken as they are with the guard free,
\* and no step of a background behaviour changes the task record of a bot.
C24_BackgroundIgnoresGuard ==
  /\ [](task["A"].running =>
          /\ (fight.pc = "idle" /\ evCount < MaxEvents) => ENABLED BgHurt("A", 0)
          /\ now - shield.lastScanAt >= ScanIntervalMs => ENABLED BgScan(TRUE)
          /\ evCount < MaxEvents => ENABLED BgPoll)
  /\ [][BackgroundStep => task' = task]_vars

\* the guard is held while the shield was raised for a damage event, a
\* retaliation is choosing its weapon and an eat of the poller is in flight
C24_Witness ==
  /\ task["A"].running
  /\ shield.calls > 0
  /\ fight.pc # "idle"
  /\ eat.inFlight = 1

(***************************************************************************)
(* raiseShieldFor                                                          *)
(***************************************************************************)
Raises == 1..MaxRaises

DeactivatesAfterHoldOnly(exit) == exit = "elapsed"

\* lines 414-419: the finally around the whole body calls deactivateItem
\* whatever way the body ends
Deactivates(exit) == exit \in {"elapsed", "equip_failed", "activate_failed"}

\* the function has no catch: the promise of a call whose equip or
\* activateItem failed is rejected
Rejects(exit) == exit \in {"equip_failed", "activate_failed"}

\* the callers of raiseShieldFor: the projectile scan attaches
\* `.catch(() => {})` to the promise (line 600); the damage handler wraps the
\* call in a try/catch and attaches nothing (line 484)
RaiseCallers == {"scan", "hurt"}

AttachesCatch(by) == by = "scan"

\* the body has ended with `exit`: the finally runs, the call is over and
\* its promise settles
RaiseOver(c, exit) ==
  [c EXCEPT !.pc = "done", !.exit = exit, !.deactivated = Deactivates(exit),
            !.unhandled = Rejects(exit) /\ ~AttachesCatch(c.by)]

\* line 412: activateItem is called; when it throws the body ends, otherwise
\* the item is in use and the call waits for durationMs (line 413)
AfterActivate(r, c, throws) ==
  IF throws
  THEN [raise EXCEPT !.calls[r] = RaiseOver(c, "activate_failed"),
                     !.active = IF Deactivates("activate_failed") THEN FALSE ELSE @]
  ELSE [raise EXCEPT !.calls[r] = [c EXCEPT !.pc = "holding"], !.active = TRUE]

RaiseFrame ==
  UNCHANGED <<bots, guardVars, statusVars, eq, autoEat, ops, opi, navVars,
              craftVars, smeltVars, defenseVars, regVars, race, eat, refuel, chain,
              lateVars>>

\* raiseShieldFor is called, lines 400-413 up to its first await: with a
\* shield in the inventory and none in the off-hand it pushes the suspension
\* flag and starts the equip; otherwise it goes on to activateItem
RaiseStart(r, by, needsEquip, throws) ==
  /\ raise.calls[r].pc = "idle"
  /\ \A q \in Raises : q < r => raise.calls[q].pc # "idle"
  /\ IF needsEquip
     THEN /\ raise' = [raise EXCEPT !.calls[r] = [IdleRaise EXCEPT !.pc = "equipping",
                                                                   !.by = by,
                                                                   !.pushed = TRUE]]
          /\ suspendCount' = PushCount(suspendCount)
          /\ suspendAutoEat' = TRUE
     ELSE /\ raise' = AfterActivate(r, [IdleRaise EXCEPT !.by = by], throws)
          /\ UNCHANGED <<suspendCount, suspendAutoEat>>
  /\ RaiseFrame

\* the equip of line 407 settles: its finally pops; a failed equip ends the
\* body, a successful one goes on to activateItem
RaiseEquipEnd(r, failed, throws) ==
  /\ raise.calls[r].pc = "equipping"
  /\ LET c == [raise.calls[r] EXCEPT !.popped = TRUE]
     IN raise' = IF failed
                 THEN [raise EXCEPT !.calls[r] = RaiseOver(c, "equip_failed"),
                                    !.active = IF Deactivates("equip_failed")
                                               THEN FALSE ELSE @]
                 ELSE AfterActivate(r, c, throws)
  /\ AfterPop(TRUE)
  /\ RaiseFrame

\* durationMs has passed (line 413): the body ends and the finally releases
\* the item
RaiseElapsed(r) ==
  /\ raise.calls[r].pc = "holding"
  /\ raise' = [raise EXCEPT !.calls[r] = RaiseOver(@, "elapsed"),
                            !.active = IF Deactivates("elapsed") THEN FALSE ELSE @]
  /\ UNCHANGED <<suspendCount, suspendAutoEat>>
  /\ RaiseFrame

\* the settled promise is dropped
RaiseDrop(r) ==
  /\ raise.calls[r].pc = "done"
  /\ \A q \in Raises : q > r => raise.calls[q].pc = "idle"
  /\ raise' = [raise EXCEPT !.calls[r] = IdleRaise]
  /\ UNCHANGED <<suspendCount, suspendAutoEat>>
  /\ RaiseFrame

RaiseInit == StatusInit

RaiseNext ==
  \/ \E r \in Raises, by \in RaiseCallers, needsEquip \in BOOLEAN, throws \in BOOLEAN :
        RaiseStart(r, by, needsEquip, throws)
  \/ \E r \in Raises, failed \in BOOLEAN, throws \in BOOLEAN :
        RaiseEquipEnd(r, failed, throws)
  \/ \E r \in Raises : RaiseElapsed(r)
  \/ \E r \in Raises : RaiseDrop(r)

SpecRaise == RaiseInit /\ [][RaiseNext]_vars

(***************************************************************************)
(* Claims about raiseShieldFor                                             *)
(***************************************************************************)
\* C27: every raiseShieldFor call that is over has called deactivateItem,
\* whether the duration elapsed, the equip failed or activateItem failed, and
\* the item is not in use right after the call ends; a call that pushed the
\* suspension flag has popped it, and the suspend count is the number of
\* calls whose equip is in flight.
C27_ShieldAlwaysReleased ==
  /\ [](\A r \in Raises :
          raise.calls[r].pc = "done" =>
            /\ raise.calls[r].deactivated
            /\ raise.calls[r].pushed => raise.calls[r].popped)
  /\ [](suspendCount = Cardinality({r \in Raises : raise.calls[r].pc = "equipping"}))
  /\ [][\A r \in Raises :
          (raise.calls[r].pc # "done" /\ raise'.calls[r].pc = "done") =>
            ~raise'.active]_vars

\* a call ended because its equip failed, another because activateItem
\* failed after an equip
C27_Witness ==
  /\ raise.calls[1].pc = "done" /\ raise.calls[1].exit = "equip_failed"
  /\ raise.calls[2].pc = "done" /\ raise.calls[2].exit = "activate_failed"
  /\ raise.calls[2].pushed

(***************************************************************************)
(* cookOrSmeltOnDevice: the output loop and its refuels                    *)
(***************************************************************************)
\* line 1408: a stall is more than 15000 ms without an output
StallMs == 15000
\* line 1412: refuelAttempts < 2
RefuelLimit == 2
\* line 1392: Math.max(90000, 60000 * outputsTarget)
SmeltMinMs == 90000
SmeltPerItemMs == 60000

LoopMaxMs(outputsTarget) ==
  IF SmeltPerItemMs * outputsTarget > SmeltMinMs
  THEN SmeltPerItemMs * outputsTarget ELSE SmeltMinMs

MayRefuelWhileFuel(invFuel, refuelAttempts) == invFuel > 0

\* line 1412: fuel && refuelAttempts < 2
MayRefuel(invFuel, refuelAttempts) == invFuel > 0 /\ refuelAttempts < RefuelLimit

\* line 1408: Date.now() - lastProgressAt > 15000
FuelStalled(t, lastProgressAt) == t - lastProgressAt > StallMs

\* line 1397: while (outputs < outputsTarget && Date.now() < deadline)
LoopGoesOn(l, t) == l.outputs < l.outputsTarget /\ t < l.deadline

\* lines 1427-1430: the result of the call
LoopResult(l, t) ==
  LET timedOut == l.outputs < l.outputsTarget /\ t >= l.deadline
      stalled == l.outputs < l.outputsTarget /\ ~timedOut /\ ~l.outOfFuel
  IN [dev |-> l.dev, ok |-> DeviceOk(l.outputs, l.outputsTarget),
      outOfFuel |-> l.outOfFuel,
      reason |-> IF l.outOfFuel THEN "out_of_fuel"
                 ELSE IF timedOut THEN "timed_out"
                 ELSE IF stalled THEN "stalled" ELSE "none",
      refuelAttempts |-> l.refuelAttempts]

RefuelFrame ==
  UNCHANGED <<bots, guardVars, statusVars, suspendVars, dist, nav, craftVars,
              defenseVars, regVars, race, eat, raise, chain, lateVars>>

\* smeltItem lines 1472-1495 for an item that is no food and a preferDevice
\* other than campfire: no campfire is in the chain
RefuelSmeltStart(prefer, isOre, count) ==
  /\ refuel.pc = "idle"
  /\ SmeltStart(prefer, FALSE, isOre, count)
  /\ UNCHANGED refuel

\* cookOrSmeltOnDevice lines 1354-1395 on the next device of the chain, a
\* block of that kind being near: the device is opened, fuelled from the
\* inventory when it holds none, the inputs are inserted and the output loop
\* is entered; without any fuel the call returns missing_fuel (line 1376)
\* and smeltItem goes on (lines 1504-1506)
RefuelOpen(available, invFuel, deviceFuel) ==
  /\ smelt.pc = "loop"
  /\ refuel.pc = "idle"
  /\ NextDevice(smelt) # "campfire"
  /\ IF ~deviceFuel /\ invFuel = 0
     THEN /\ smelt' = AfterTry(smelt, CookOrSmeltOnDevice(NextDevice(smelt), smelt.count,
                                                          TRUE, FALSE, 0, 0))
          /\ refuel' = [IdleRefuel EXCEPT
                          !.last = [dev |-> NextDevice(smelt), ok |-> FALSE,
                                    outOfFuel |-> TRUE, reason |-> "missing_fuel",
                                    refuelAttempts |-> 0]]
     ELSE /\ refuel' = [IdleRefuel EXCEPT
                          !.pc = "loop", !.dev = NextDevice(smelt),
                          !.outputsTarget = Inserted(smelt.count, available),
                          !.deadline = now + LoopMaxMs(Inserted(smelt.count, available)),
                          !.lastProgressAt = now,
                          !.invFuel = IF deviceFuel THEN invFuel ELSE invFuel - 1,
                          !.last = refuel.last]
          /\ UNCHANGED smelt
  /\ UNCHANGED now
  /\ RefuelFrame

\* One pass of the output loop, lines 1397-1425. got: what takeOutput
\* returned; hasFuelNow: furnace.fuelItem() at the stall test; putFails:
\* putFuel rejects.
RefuelPass(got, hasFuelNow, putFails) ==
  /\ refuel.pc = "loop"
  /\ LoopGoesOn(refuel, now)
  /\ got <= refuel.outputsTarget - refuel.outputs
  /\ now' = now + RefuelStepMs
  /\ LET progress == IF got > 0 THEN now' ELSE refuel.lastProgressAt
         l == [refuel EXCEPT !.outputs = @ + got, !.lastProgressAt = progress]
     IN refuel' =
          IF ~FuelStalled(now', progress)
          THEN [l EXCEPT !.seen = "progress"]
          ELSE IF hasFuelNow
          THEN [l EXCEPT !.pc = "after", !.seen = "stall_fuelled"]
          ELSE IF MayRefuel(l.invFuel, l.refuelAttempts) /\ ~putFails
          THEN [l EXCEPT !.refuelAttempts = @ + 1, !.lastProgressAt = now',
                         !.invFuel = @ - 1, !.seen = "stall_empty"]
          ELSE [l EXCEPT !.pc = "after", !.outOfFuel = TRUE, !.seen = "stall_empty"]
  /\ UNCHANGED smelt
  /\ RefuelFrame

\* the loop is left (line 1397 or a break), the result is built (lines
\* 1427-1430) and smeltItem takes it (lines 1504-1506)
RefuelReturn ==
  /\ refuel.pc \in {"loop", "after"}
  /\ refuel.pc = "loop" => ~LoopGoesOn(refuel, now)
  /\ LET r == LoopResult(refuel, now)
     IN /\ smelt' = AfterTry(smelt, [dev |-> r.dev, threw |-> FALSE, ok |-> r.ok,
                                     inserted |-> refuel.outputsTarget,
                                     outputs |-> refuel.outputs])
        /\ refuel' = [IdleRefuel EXCEPT !.last = r]
  /\ UNCHANGED now
  /\ RefuelFrame

\* the result of smeltItem is handed out; the next call can start
RefuelSmeltEnd ==
  /\ smelt.pc = "done"
  /\ smelt' = IdleSmelt
  /\ refuel' = IdleRefuel
  /\ now' = 0
  /\ RefuelFrame

RefuelInit == SmeltInit

RefuelNext ==
  \/ \E prefer \in {"none", "smoker"}, isOre \in BOOLEAN, count \in 1..MaxSmelt :
        RefuelSmeltStart(prefer, isOre, count)
  \/ \E available \in 1..MaxSmelt, invFuel \in 0..MaxFuel, deviceFuel \in BOOLEAN :
        RefuelOpen(available, invFuel, deviceFuel)
  \/ \E got \in 0..MaxSmelt, hasFuelNow \in BOOLEAN, putFails \in BOOLEAN :
        RefuelPass(got, hasFuelNow, putFails)
  \/ RefuelReturn
  \/ RefuelSmeltEnd

SpecRefuel == RefuelInit /\ [][RefuelNext]_vars

(***************************************************************************)
(* Claims about the refuels                                                *)
(***************************************************************************)
\* C28: on one device the output loop refuels at most twice; a stall with no
\* fuel in the device, met after two refuels or with no fuel item in the
\* inventory, ends the loop with outOfFuel set; a call that ends with
\* outOfFuel has reason out_of_fuel and ok false, and smeltItem goes on to
\* the next device of the chain when there is one.
C28_TwoRefuelsThenOutOfFuel ==
  /\ [](refuel.refuelAttempts <= RefuelLimit)
  /\ [][(/\ refuel.pc = "loop"
         /\ now' # now
         /\ refuel'.seen = "stall_empty"
         /\ (refuel.refuelAttempts = RefuelLimit \/ refuel.invFuel = 0))
        => (refuel'.pc = "after" /\ refuel'.outOfFuel)]_vars
  /\ [][(refuel.pc = "after" /\ refuel.outOfFuel /\ refuel'.pc = "idle")
        => /\ refuel'.last.reason = "out_of_fuel"
           /\ ~refuel'.last.ok
           /\ ~smelt'.attempts[Len(smelt'.attempts)].ok
           /\ IF Len(smelt.attempts) + 1 < Len(smelt.sequence)
              THEN /\ smelt'.pc = "loop"
                   /\ NextDevice(smelt') = smelt.sequence[Len(smelt.attempts) + 2]
              ELSE smelt'.pc = "done" /\ ~smelt'.ok]_vars

\* the blast furnace ran out of fuel after two refuels with a fuel item
\* still in the inventory, and the furnace is the next device
C28_Witness ==
  /\ refuel.pc = "idle"
  /\ refuel.last.reason = "out_of_fuel"
  /\ refuel.last.refuelAttempts = RefuelLimit
  /\ smelt.pc = "loop"
  /\ Len(smelt.attempts) = 1
  /\ NextDevice(smelt) = "furnace"

(***************************************************************************)
(* smeltItem: the device chain of an item name                             *)
(***************************************************************************)
\* An item name is the sequence of its words, <<"raw", "iron">> for raw_iron.
\* No word of the vocabulary holds another one or a "_".
Words == {"raw", "iron", "ore", "beef", "sand"}

ItemNames == UNION {[1..n -> Words] : n \in 1..MaxWords}

\* params.preferDevice; "" stands for a missing or empty value
PreferValues == {"", "campfire", "smoker", "blast_furnace", "furnace", "oven"}

\* n.includes(x) for a sequence x of words
IncludesWords(n, x) ==
  \E i \in 0..(Len(n) - Len(x)) : \A j \in 1..Len(x) : n[i + j] = x[j]

\* n.startsWith('raw_')
StartsWithRaw(n) == Len(n) >= 2 /\ n[1] = "raw"

\* n.endsWith('_ore')
EndsWithOre(n) == Len(n) >= 2 /\ n[Len(n)] = "ore"

\* isLikelyFood line 1324: the names a food is recognised by
Foods ==
  {<<"beef">>, <<"porkchop">>, <<"mutton">>, <<"chicken">>, <<"cod">>, <<"salmon">>,
   <<"rabbit">>, <<"potato">>, <<"kelp">>, <<"sweet", "berries">>}

\* isLikelyFood, lines 1321-1327
isLikelyFood(n) ==
  \/ \E x \in Foods : IncludesWords(n, x)
  \/ StartsWithRaw(n)
  \/ IncludesWords(n, <<"raw">>)

\* isLikelyOre, lines 1329-1334
isLikelyOre(n) ==
  \/ EndsWithOre(n)
  \/ StartsWithRaw(n)
  \/ \E x \in {<<"iron", "ore">>, <<"gold", "ore">>, <<"copper", "ore">>,
               <<"ancient", "debris">>} : IncludesWords(n, x)

\* smeltItem lines 1480-1483: the device pushed first for a preference
PushedFor(p) == IF p \in {"campfire", "smoker", "blast_furnace"} THEN p ELSE "furnace"

\* smeltItem lines 1476-1493 for an item name and a preferDevice value
ChainOf(n, p) ==
  SmeltSequence(IF p = "" THEN "none" ELSE PushedFor(p), isLikelyFood(n), isLikelyOre(n))

ChainFrame ==
  UNCHANGED <<bots, guardVars, statusVars, suspendVars, navVars, craftVars, smeltVars,
              defenseVars, regVars, race, eat, raise, refuel, lateVars>>

\* smeltItem is called with an item name and a preferDevice (lines 1472-1473)
ChainAsk(n, p) ==
  /\ chain.pc \in {"idle", "built"}
  /\ chain' = [IdleChain EXCEPT !.pc = "asked", !.itemName = n, !.preferDevice = p]
  /\ ChainFrame

\* the chain is built (lines 1476-1493)
ChainBuild ==
  /\ chain.pc = "asked"
  /\ chain' = [chain EXCEPT !.pc = "built",
                            !.sequence = ChainOf(chain.itemName, chain.preferDevice)]
  /\ ChainFrame

ChainInit == SmeltInit

ChainNext ==
  \/ \E n \in ItemNames, p \in PreferValues : ChainAsk(n, p)
  \/ ChainBuild

SpecChain == ChainInit /\ [][ChainNext]_vars

(***************************************************************************)
(* Claims about the device chain                                           *)
(***************************************************************************)
\* the spec's ore-like item: a name ending in _ore or starting with raw_
OreLike(n) == EndsWithOre(n) \/ StartsWithRaw(n)

\* the chain holds the furnace
FurnaceInEveryChain ==
  chain.pc = "built" => Includes(chain.sequence, "furnace")

\* an item that is no ore-like one gets the chain the claim names
ChainOfOthers ==
  (chain.pc = "built" /\ chain.preferDevice = "" /\ ~OreLike(chain.itemName)) =>
     chain.sequence[1] = (IF isLikelyFood(chain.itemName) THEN "smoker" ELSE "furnace")

\* C29: in the chain built for an item name and a preferDevice, an explicit
\* preference for a device is first; without a preference an ore-like item
\* (ending in _ore or starting with raw_) gets a blast-furnace-first chain, a
\* food that is not ore-like a smoker-first chain, any other item the furnace
\* only; the furnace is in every chain; the campfire appears only as the last
\* element and only for food items.
C29_DeviceChain ==
  chain.pc = "built" =>
    LET n == chain.itemName
        p == chain.preferDevice
        seq == chain.sequence
    IN /\ p \in {"campfire", "smoker", "blast_furnace", "furnace"} => seq[1] = p
       /\ (p = "" /\ OreLike(n)) => seq[1] = "blast_furnace"
       /\ (p = "" /\ ~OreLike(n) /\ isLikelyFood(n)) => seq[1] = "smoker"
       /\ (p = "" /\ ~OreLike(n) /\ ~isLikelyFood(n)) => seq = <<"furnace">>
       /\ Includes(seq, "furnace")
       /\ \A i \in 1..Len(seq) :
            seq[i] = "campfire" => (i = Len(seq) /\ isLikelyFood(n))

\* C29, the ore-like item without a preference alone: its chain starts with
\* the blast furnace
C29_OreGetsBlastFurnace ==
  (chain.pc = "built" /\ chain.preferDevice = "" /\ OreLike(chain.itemName)) =>
     chain.sequence[1] = "blast_furnace"

(***************************************************************************)
(* Claims about the reasons of craftItems                                  *)
(***************************************************************************)
\* the reasons the claim names
StopReasons == {"craft_stalled", "craft_timeout", "missing_resources"}

\* a step in which an attempt of the loop stopped the action: the loop was
\* entered (items are left to craft, the deadline has not passed) and the
\* action returned
AttemptStops ==
  /\ craft.pc = "loop"
  /\ craft'.pc = "done"
  /\ craft.crafted < craft.count
  /\ ~craft'.timedOut

\* C30: when an attempt stops craftItems, the result carries exactly one of
\* the reasons craft_stalled (no output from attempts that completed),
\* craft_timeout (the attempt took longer than 8 s) and missing_resources
\* (the attempt failed).
C30_StopReasons == [][AttemptStops => craft'.reason \in StopReasons]_vars

\* what the code does: the reason of an attempt that stopped the action is
\* craft_timeout, missing_resources or unknown, and never craft_stalled
StopReasonsOfCode ==
  /\ [][AttemptStops => craft'.reason \in {"craft_timeout", "missing_resources",
                                          "unknown"}]_vars
  /\ [](craft.reason # "craft_stalled")

(***************************************************************************)
(* Claims about failures inside the background behaviours                  *)
(***************************************************************************)
\* the rejected promises of the shield raises the projectile scan started
\* are all handled
ScanRaisesAreHandled ==
  \A r \in Raises : raise.calls[r].by = "scan" => ~raise.calls[r].unhandled

\* C32: no failure leaves a background behaviour; in particular no shield
\* raise, started by the projectile scan or by a damage event, whose equip or
\* item activation failed ends in an unhandled promise rejection.
C32_FailuresStayInside ==
  \A r \in Raises : ~raise.calls[r].unhandled

(***************************************************************************)
(* mineResource                                                            *)
(***************************************************************************)
\* line 905: maxMs, when the caller gives none
MineMaxMs == 120000
\* lines 945 and 948: the stall window
MineStallMs == 20000

\* A block is written as whether it needs a tool category that the
\* inventory lacks (requiredToolCategoryForBlockName, line 157, and
\* inventoryHasToolCategory, line 170); nameLacks is the same for the block
\* name of the request. findBlocks was asked for at most `count` positions,
\* and blockAt may know none of them (line 911).
BlockLists(count) == UNION {[1..n -> BOOLEAN] : n \in 0..count}

MissingToolNever(blocks, nameLacks) == FALSE

\* lines 913-914: the pre-check reads the first block found, or the name of
\* the request when the first block is unknown
MissingTool(blocks, nameLacks) ==
  IF Len(blocks) > 0 THEN blocks[1] ELSE nameLacks

\* lines 921 and 947: Date.now() - start > maxMs
MineOver(t, start) == t - start > MineMaxMs

\* line 945: Date.now() - lastProgressAt > 20000
MineStalled(t, lastProgressAt) == t - lastProgressAt > MineStallMs

\* line 948: stalled
MineStalledFlag(t, start, lastProgressAt, completed, count) ==
  MineStalled(t, lastProgressAt) /\ ~MineOver(t, start) /\ completed < count

\* line 949: remaining: Math.max(0, count - completed)
MineRemaining(count, completed) == IF count - completed > 0 THEN count - completed ELSE 0

MineFrame ==
  UNCHANGED <<bots, inv, statusVars, suspendVars, dist, nav, craftVars, smeltVars,
              defenseVars, regVars, race, eat, raise, refuel, chain, combat, timers, gflags, abandon>>

\* mineResource is called (lines 900-906): withTask takes the guard and the
\* body waits for the data module
MineStart(count, blocks, nameLacks) ==
  /\ mine.pc = "idle"
  /\ ~WithTaskBusy(task["A"])
  /\ task' = [task EXCEPT !["A"] = WithTaskAcquire(1)]
  /\ mine' = [IdleMine EXCEPT !.pc = "started", !.count = count, !.blocks = blocks,
                              !.nameLacks = nameLacks]
  /\ now' = 0
  /\ MineFrame

\* lines 907-919: the blocks are looked up and the tool pre-check is made;
\* when it fails the call returns missing_tool and withTask releases the guard
MinePrecheck ==
  /\ mine.pc = "started"
  /\ IF MissingTool(mine.blocks, mine.nameLacks)
     THEN /\ mine' = [mine EXCEPT !.pc = "done", !.ok = FALSE, !.completed = 0,
                                  !.remaining = mine.count, !.reason = "missing_tool",
                                  !.needed = TRUE]
          /\ task' = [task EXCEPT !["A"] = WithTaskExit(@, FALSE)]
     ELSE /\ mine' = [mine EXCEPT !.pc = "loop", !.start = now, !.lastProgressAt = now]
          /\ UNCHANGED task
  /\ UNCHANGED now
  /\ MineFrame

\* One pass of the block loop (lines 920-946) that does not break at line
\* 921. A block whose tool is lacking is skipped (lines 926-930); for any
\* other the tool is equipped, the bot walks to the block and collects it,
\* which takes dt ms and succeeds or throws; then the stall test is made.
MineBlock(dt, collected) ==
  /\ mine.pc = "loop"
  /\ mine.i <= Len(mine.blocks)
  /\ ~MineOver(now, mine.start)
  /\ IF mine.blocks[mine.i]
     THEN /\ mine' = [mine EXCEPT !.i = @ + 1, !.failed = @ + 1]
          /\ UNCHANGED now
     ELSE /\ now' = now + dt
          /\ LET m == [mine EXCEPT !.i = @ + 1, !.equips = @ + 1, !.navs = @ + 1,
                                   !.digs = @ + 1,
                                   !.completed = IF collected THEN @ + 1 ELSE @,
                                   !.failed = IF collected THEN @ ELSE @ + 1,
                                   !.lastProgressAt = IF collected THEN now' ELSE @]
             IN mine' = IF MineStalled(now', m.lastProgressAt)
                        THEN [m EXCEPT !.pc = "after"] ELSE m
  /\ UNCHANGED task
  /\ MineFrame

\* the loop is left; the result is built (lines 947-949) and withTask
\* releases the guard (lines 51-54)
MineReturn ==
  /\ \/ mine.pc = "after"
     \/ mine.pc = "loop" /\ (mine.i > Len(mine.blocks) \/ MineOver(now, mine.start))
  /\ mine' = [mine EXCEPT
                !.pc = "done",
                !.ok = mine.completed > 0,
                !.remaining = MineRemaining(mine.count, mine.completed),
                !.timedOut = MineOver(now, mine.start),
                !.stalled = MineStalledFlag(now, mine.start, mine.lastProgressAt,
                                            mine.completed, mine.count)]
  /\ task' = [task EXCEPT !["A"] = WithTaskExit(@, FALSE)]
  /\ UNCHANGED now
  /\ MineFrame

\* the result is handed to the caller
MineDrop ==
  /\ mine.pc = "done"
  /\ mine' = IdleMine
  /\ now' = 0
  /\ UNCHANGED task
  /\ MineFrame

MineInit == SmeltInit

MineNext ==
  \/ \E count \in 1..MaxBlocks, nameLacks \in BOOLEAN :
       \E blocks \in BlockLists(count) : MineStart(count, blocks, nameLacks)
  \/ MinePrecheck
  \/ \E dt \in {0, MineStepMs, 2 * MineStepMs}, collected \in BOOLEAN : MineBlock(dt, collected)
  \/ MineReturn
  \/ MineDrop

SpecMine == MineInit /\ [][MineNext]_vars

(***************************************************************************)
(* Claims about mineResource                                               *)
(***************************************************************************)
\* the target of the call, the nearest block found or else the block named,
\* needs a tool category that the inventory lacks
TargetLacksTool ==
  \/ Len(mine.blocks) > 0 /\ mine.blocks[1]
  \/ Len(mine.blocks) = 0 /\ mine.nameLacks

\* C31: a mineResource call whose target block needs a tool category the
\* inventory lacks returns ok=false, reason missing_tool, the needed
\* category, completed=0 and remaining=requested, has issued no equip, no
\* navigation and no dig, and has released the task guard; every other result
\* has completed + remaining = requested and ok exactly when completed > 0.
C31_MissingTool ==
  mine.pc = "done" =>
    /\ ~task["A"].running
    /\ IF TargetLacksTool
       THEN /\ ~mine.ok /\ mine.reason = "missing_tool" /\ mine.needed
            /\ mine.completed = 0 /\ mine.remaining = mine.count
            /\ mine.equips = 0 /\ mine.navs = 0 /\ mine.digs = 0
       ELSE /\ mine.reason # "missing_tool"
            /\ mine.completed + mine.remaining = mine.count
            /\ mine.ok = (mine.completed > 0)

\* a call for two blocks returned missing_tool
C31_Witness ==
  /\ mine.pc = "done" /\ mine.reason = "missing_tool"
  /\ Len(mine.blocks) = 2 /\ ~task["A"].running

(***************************************************************************)
(* bot.pvp: retaliation, its disengage timer, and the foreground attacks   *)
(***************************************************************************)
\* line 439: __selfDefense.durationMs
DefenseMs == 10000

ForegroundFns == {"attackSomeone", "hunt"}

\* bot.pvp.stop(): whatever bot.pvp attacks is dropped
PvpStop(c) == [c EXCEPT !.by = "none", !.id = 0, !.since = 0]

CombatFrame ==
  UNCHANGED <<bots, guardVars, statusVars, suspendVars, dist, nav, craftVars, smeltVars,
              defenseVars, regVars, race, eat, raise, refuel, chain, mine, timers, gflags, abandon>>

\* entityHurt lines 464-477 with self-defence enabled: bot.pvp.attack takes
\* the attacker as target and a timer is set that calls bot.pvp.stop() after
\* durationMs
Retaliate ==
  /\ combat.retaliations < MaxRetaliations
  /\ LET n == combat.retaliations + 1
     IN combat' = [combat EXCEPT !.by = "retaliation", !.id = n, !.since = now,
                                 !.retaliations = n,
                                 !.timers = @ \cup {[id |-> n, due |-> now + DefenseMs]}]
  /\ UNCHANGED now
  /\ CombatFrame

\* attackSomeone line 2126 and hunt line 866: bot.pvp.attack takes the
\* target of the foreground action
ForegroundAttack(fn) ==
  /\ combat.fg = "none"
  /\ combat' = [combat EXCEPT !.by = fn, !.id = 0, !.since = now, !.fg = fn]
  /\ UNCHANGED now
  /\ CombatFrame

\* attackSomeone line 2136 and hunt line 880: the foreground action leaves
\* its wait loop and calls bot.pvp.stop()
ForegroundEnd ==
  /\ combat.fg # "none"
  /\ combat' = [PvpStop(combat) EXCEPT !.fg = "none"]
  /\ UNCHANGED now
  /\ CombatFrame

\* the timer that retaliation n set at line 476 fires: bot.pvp.stop()
DisengageFires(n) ==
  /\ \E t \in combat.timers : t.id = n /\ now >= t.due
  /\ combat' = [PvpStop(combat) EXCEPT
                  !.timers = {t \in @ : t.id # n},
                  !.stopped = combat.by, !.stoppedId = combat.id,
                  !.stoppedAfter = IF combat.by = "none" THEN 0 ELSE now - combat.since,
                  !.stopper = n]
  /\ UNCHANGED now
  /\ CombatFrame

\* time passes; a timer that is due fires first
CombatClock ==
  /\ now < MaxCombatSteps * CombatStepMs
  /\ \A t \in combat.timers : t.due > now
  /\ now' = now + CombatStepMs
  /\ UNCHANGED combat
  /\ CombatFrame

CombatInit == SmeltInit

CombatNext ==
  \/ Retaliate
  \/ \E fn \in ForegroundFns : ForegroundAttack(fn)
  \/ ForegroundEnd
  \/ \E n \in 1..MaxRetaliations : DisengageFires(n)
  \/ CombatClock

SpecCombat == CombatInit /\ [][CombatNext]_vars

(***************************************************************************)
(* Claims about the disengage timer                                        *)
(***************************************************************************)
\* a retaliation that its own timer stopped was engaged for the configured
\* duration
OwnTimerAfterDuration ==
  (combat.stopped = "retaliation" /\ combat.stoppedId = combat.stopper) =>
     combat.stoppedAfter = DefenseMs

\* C33: the disengage timer of a retaliation stops only the combat that
\* this retaliation started: what it stopped, if anything, is never a
\* foreground attack and never a later retaliation, which therefore stays
\* engaged for its own full duration.
C33_DisengageOwnCombat ==
  combat.stopped # "none" =>
     /\ combat.stopped = "retaliation"
     /\ combat.stoppedId = combat.stopper
     /\ combat.stoppedAfter >= DefenseMs

(***************************************************************************)
(* joinGame: the login handler, the end handler and the interval timers    *)
(***************************************************************************)
TimersFrame ==
  UNCHANGED <<bots, guardVars, statusVars, suspendVars, navVars, craftVars, smeltVars,
              defenseVars, regVars, race, eat, raise, refuel, chain, mine, combat, gflags, abandon>>

\* the login event: the handler of line 509 runs up to the await of line
\* 517, the load of the data module
LoginBegins ==
  /\ timers.login = "none"
  /\ ~timers.ended
  /\ timers' = [timers EXCEPT !.login = "awaiting"]
  /\ TimersFrame

\* the load has settled: the handler goes on and creates the two interval
\* timers (lines 547 and 583), whatever has happened to the connection
LoginResumes ==
  /\ timers.login = "awaiting"
  /\ timers' = [timers EXCEPT !.login = "done", !.autoEatInterval = TRUE,
                              !.shieldScan = TRUE]
  /\ TimersFrame

\* the end event (lines 607-611): clearInterval on the two timers that
\* exist at this moment
EndEvent ==
  /\ ~timers.ended
  /\ timers' = [timers EXCEPT !.ended = TRUE, !.endedWhile = timers.login,
                              !.autoEatInterval = FALSE, !.shieldScan = FALSE]
  /\ TimersFrame

\* a tick of the auto-eat interval (line 547)
AutoEatTicks ==
  /\ timers.autoEatInterval
  /\ timers.eatTicks < MaxTicks
  /\ timers' = [timers EXCEPT !.eatTicks = @ + 1,
                              !.afterEnd = IF timers.ended THEN @ \cup {"autoEat"} ELSE @]
  /\ TimersFrame

\* a tick of the projectile scan (line 583)
ShieldScanTicks ==
  /\ timers.shieldScan
  /\ timers.scanTicks < MaxTicks
  /\ timers' = [timers EXCEPT !.scanTicks = @ + 1,
                              !.afterEnd = IF timers.ended THEN @ \cup {"shieldScan"} ELSE @]
  /\ TimersFrame

TimersInit == SmeltInit

TimersNext ==
  \/ LoginBegins
  \/ LoginResumes
  \/ EndEvent
  \/ AutoEatTicks
  \/ ShieldScanTicks

SpecTimers == TimersInit /\ [][TimersNext]_vars

(***************************************************************************)
(* Claims about the timers after the end of the connection                 *)
(***************************************************************************)
\* a timer is left or ticks after the end only when the end event came
\* while the login handler was awaiting
NoTickAfterLaterEnd ==
  (timers.ended /\ timers.endedWhile # "awaiting") =>
     (timers.afterEnd = {} /\ ~timers.autoEatInterval /\ ~timers.shieldScan)

\* C34: after the connection of a bot has ended, no auto-feed tick and no
\* projectile-scan tick of that bot runs, and no interval timer of it is
\* left, whatever the order of the login handler and the end event.
C34_NoTickAfterEnd ==
  timers.ended => (timers.afterEnd = {} /\ ~timers.autoEatInterval /\ ~timers.shieldScan)

(***************************************************************************)
(* Claims about old connections and registered usernames                   *)
(***************************************************************************)
\* C35: the end event of a bot object that is not the one registered under
\* its username (the name was left and joined again in the meantime) leaves
\* the registry as it is; a joinGame for a username that is registered is
\* refused with 'already exists' and leaves the registry and every bot object
\* as they are.
C35_LateEndKeepsNewSession ==
  /\ [][\A s \in Sessions :
          (/\ Open(s)
           /\ conn'.sess[s].pc = "ended"
           /\ conn.owner[conn.sess[s].username] # s)
          => (conn'.owner = conn.owner /\ bots' = bots)]_vars
  /\ [][\A u \in Bots :
          (/\ conn'.last.op = "joinGame"
           /\ conn'.last.username = u
           /\ conn.owner[u] # 0)
          => /\ conn'.last.result = "already_exists"
             /\ conn'.owner = conn.owner
             /\ conn'.sess = conn.sess
             /\ bots' = bots]_vars

\* the first bot of a username has left and its connection has ended after
\* the username was joined again; the second bot is still registered
C35_Witness ==
  \E s, t \in Sessions :
    /\ s < t
    /\ conn.sess[s].pc = "ended" /\ conn.sess[s].left
    /\ Open(t) /\ conn.sess[t].username = conn.sess[s].username
    /\ conn.owner[conn.sess[t].username] = t
    /\ conn.last = NoRegCall

(***************************************************************************)
(* The timedOut and stalled flags of the action results                    *)
(***************************************************************************)
\* hunt lines 837-838 and gatherSeeds lines 2214, 2217: maxMs when the caller
\* gives none, and stallMs
HuntMaxMs == 120000
HuntStallMs == 20000
SeedsMaxMs == 120000
SeedsStallMs == 20000

FlagFns == {"mineResource", "hunt", "gatherSeeds", "cookOrSmeltOnDevice"}

FlagTimes == {k * FlagStepMs : k \in 0..MaxFlagSteps}

\* hunt lines 895-896, `elapsed` ms after the start and `since` ms after the
\* last kill
HuntFlags(elapsed, since, kills, countTarget) ==
  [timedOut |-> kills < countTarget /\ elapsed >= HuntMaxMs,
   stalled |-> kills < countTarget /\ since > HuntStallMs]

\* gatherSeeds lines 2263-2264
SeedsFlags(elapsed, since, gained, targetSeeds) ==
  [timedOut |-> elapsed > SeedsMaxMs,
   stalled |-> since > SeedsStallMs /\ gained < targetSeeds]

\* mineResource lines 947-948
MineFlags(elapsed, since, completed, count) ==
  [timedOut |-> MineOver(elapsed, 0),
   stalled |-> MineStalledFlag(elapsed, 0, elapsed - since, completed, count)]

\* cookOrSmeltOnDevice lines 1427-1428, the deadline being that of line 1392
DeviceFlags(elapsed, outputs, outputsTarget, outOfFuel) ==
  LET timedOut == outputs < outputsTarget /\ elapsed >= LoopMaxMs(outputsTarget)
  IN [timedOut |-> timedOut,
      stalled |-> outputs < outputsTarget /\ ~timedOut /\ ~outOfFuel]

FlagsOf(g) ==
  IF g.fn = "hunt" THEN HuntFlags(g.elapsed, g.since, g.progress, g.target)
  ELSE IF g.fn = "gatherSeeds" THEN SeedsFlags(g.elapsed, g.since, g.progress, g.target)
  ELSE IF g.fn = "mineResource" THEN MineFlags(g.elapsed, g.since, g.progress, g.target)
  ELSE DeviceFlags(g.elapsed, g.progress, g.target, g.outOfFuel)

FlagsFrame ==
  UNCHANGED <<bots, guardVars, statusVars, suspendVars, navVars, craftVars, smeltVars,
              defenseVars, regVars, race, eat, raise, refuel, chain, mine, combat,
              timers, abandon>>

\* the loop of an action is left `elapsed` ms after its start and `since` ms
\* after its last progress, with `progress` of `target` units done; without
\* any progress the last progress is the start
FlagsAsk(fn, elapsed, since, progress, target, outOfFuel) ==
  /\ gflags.pc = "idle"
  /\ since <= elapsed
  /\ progress <= target
  /\ progress = 0 => since = elapsed
  /\ outOfFuel => fn = "cookOrSmeltOnDevice"
  /\ gflags' = [IdleFlags EXCEPT !.pc = "asked", !.fn = fn, !.elapsed = elapsed,
                                 !.since = since, !.progress = progress,
                                 !.target = target, !.outOfFuel = outOfFuel]
  /\ FlagsFrame

\* the result is built
FlagsBuild ==
  /\ gflags.pc = "asked"
  /\ gflags' = [gflags EXCEPT !.pc = "built", !.timedOut = FlagsOf(gflags).timedOut,
                              !.stalled = FlagsOf(gflags).stalled]
  /\ FlagsFrame

\* the result is handed out
FlagsDrop ==
  /\ gflags.pc = "built"
  /\ gflags' = IdleFlags
  /\ FlagsFrame

FlagsInit == SmeltInit

FlagsNext ==
  \/ \E fn \in FlagFns, elapsed \in FlagTimes, since \in FlagTimes,
        progress \in 0..MaxTarget, target \in 1..MaxTarget, outOfFuel \in BOOLEAN :
        FlagsAsk(fn, elapsed, since, progress, target, outOfFuel)
  \/ FlagsBuild
  \/ FlagsDrop

SpecFlags == FlagsInit /\ [][FlagsNext]_vars

(***************************************************************************)
(* Claims about the flags                                                  *)
(***************************************************************************)
\* the flags of mineResource and cookOrSmeltOnDevice exclude each other
ExclusiveWhereNegated ==
  (gflags.pc = "built" /\ gflags.fn \in {"mineResource", "cookOrSmeltOnDevice"}) =>
     ~(gflags.timedOut /\ gflags.stalled)

\* C36: no result of mineResource, hunt, gatherSeeds or cookOrSmeltOnDevice
\* has both timedOut and stalled set, whatever the elapsed time, the time
\* since the last progress and the progress count.
C36_FlagsExclusive ==
  gflags.pc = "built" => ~(gflags.timedOut /\ gflags.stalled)

(***************************************************************************)
(* craftItems with recipes that yield several items                        *)
(***************************************************************************)
YieldNext ==
  \/ \E n \in 1..MaxCount, k \in 1..MaxPer, a \in 0..MaxHave,
        needsTable \in BOOLEAN, tableNear \in BOOLEAN, tableItem \in BOOLEAN :
        CraftStart(n, k, a, needsTable, tableNear, tableItem)
  \/ \E outcome \in {"crafted", "threw", "timeout", "no_output"}, gain \in 1..MaxYield,
        late \in BOOLEAN :
        CraftAttemptOf(outcome, gain, late)

SpecYield == CraftInit /\ [][YieldNext]_vars

(***************************************************************************)
(* Claims about the counts of craftItems                                   *)
(***************************************************************************)
\* the result never reports a negative count, and remaining is what is
\* left of the request, if anything
CountsAreClamped ==
  craft.pc = "done" =>
    /\ craft.crafted >= 0 /\ craft.remaining >= 0
    /\ craft.crafted <= craft.count => craft.crafted + craft.remaining = craft.count

\* C37: every craftItems result has 0 <= crafted <= requested and
\* crafted + remaining = requested, also for a recipe that yields more than
\* one item per craft and when the count of the item changes otherwise.
C37_CraftedWithinRequested ==
  craft.pc = "done" =>
    /\ 0 <= craft.crafted
    /\ craft.crafted <= craft.count
    /\ craft.crafted + craft.remaining = craft.count

(***************************************************************************)
(* The task guard and the operations a guarded action leaves behind        *)
(***************************************************************************)
\* the guarded actions that race a collaborator operation against a timer
RacingTools == {"craftItems", "mineResource"}

\* craftItems line 1189 and mineResource line 938
RaceFnOf(fn) ==
  IF fn = "craftItems" THEN "craftWithTimeout" ELSE "collectBlockWithTimeout"

\* the operations in flight after the timer of the action's race has won:
\* the raced one is cancelled or left running
AfterTimeout(fn, inFlight) ==
  IF CancelsOnTimeout(RaceFnOf(fn)) THEN inFlight - 1 ELSE inFlight

AbandonFrame ==
  UNCHANGED <<bots, inv, statusVars, suspendVars, navVars, craftVars, smeltVars,
              defenseVars, regVars, race, eat, raise, refuel, chain, mine, combat,
              timers, gflags>>

\* a guarded action takes the guard (lines 41-50) and starts its first
\* operation, bot.craft or collectBlock.collect, raced against a timer
GuardedStart(fn) ==
  /\ abandon.pc = "idle"
  /\ abandon.calls < MaxGuarded
  /\ ~WithTaskBusy(task["A"])
  /\ task' = [task EXCEPT !["A"] = WithTaskAcquire(1)]
  /\ abandon' = [abandon EXCEPT !.pc = "waiting", !.fn = fn, !.attempts = 1,
                                !.inFlight = @ + 1, !.calls = @ + 1, !.last = "none"]
  /\ AbandonFrame

\* the raced operation settles before its timer: the action starts its next
\* attempt, or it returns and withTask releases the guard (lines 51-54)
RacedOpSettles(more) ==
  /\ abandon.pc = "waiting"
  /\ more => abandon.attempts < MaxAttempts
  /\ IF more
     THEN /\ abandon' = [abandon EXCEPT !.attempts = @ + 1]
          /\ UNCHANGED task
     ELSE /\ abandon' = [abandon EXCEPT !.pc = "idle", !.inFlight = @ - 1,
                                        !.last = "settled"]
          /\ task' = [task EXCEPT !["A"] = WithTaskExit(@, FALSE)]
  /\ AbandonFrame

\* the timer wins the race: craftItems breaks with craft_timeout (lines
\* 1203-1209), mineResource records the failed block (line 943); the action
\* returns and withTask releases the guard
RacedTimerWins ==
  /\ abandon.pc = "waiting"
  /\ abandon' = [abandon EXCEPT !.pc = "idle",
                                !.inFlight = AfterTimeout(abandon.fn, @),
                                !.last = "timeout"]
  /\ task' = [task EXCEPT !["A"] = WithTaskExit(@, FALSE)]
  /\ AbandonFrame

\* an operation that was left running settles
AbandonedSettles ==
  /\ abandon.inFlight > (IF abandon.pc = "waiting" THEN 1 ELSE 0)
  /\ abandon' = [abandon EXCEPT !.inFlight = @ - 1]
  /\ UNCHANGED task
  /\ AbandonFrame

AbandonInit == SmeltInit

AbandonNext ==
  \/ \E fn \in RacingTools : GuardedStart(fn)
  \/ \E more \in BOOLEAN : RacedOpSettles(more)
  \/ RacedTimerWins
  \/ AbandonedSettles

SpecAbandon == AbandonInit /\ [][AbandonNext]_vars

(***************************************************************************)
(* Claims about the guard and the operations in flight                     *)
(***************************************************************************)
\* while the guard is held at most one operation of the holder is in flight
\* beside those left behind, and an action that returned without a timeout
\* left none of its own
HolderHasOneOperation ==
  /\ abandon.pc = "waiting" => (task["A"].running /\ abandon.inFlight >= 1)
  /\ abandon.pc = "idle" => ~task["A"].running

\* C38: whenever the task guard of a bot is free, no collaborator operation
\* started by a guarded action on that bot is in flight; in particular the
\* craft abandoned by a craft_timeout is not running when the next guarded
\* action takes the guard.
C38_FreeGuardNothingInFlight ==
  ~task["A"].running => abandon.inFlight = 0

====
